---------------------------- MODULE Spec2Model ----------------------------
(***************************************************************************)
(* Parsec language server: the per-document debounced parse cache          *)
(* (state.rs), symbol extraction (symbols.rs), the background workspace    *)
(* indexer (state.rs), the symbol index (index.rs) and the request         *)
(* handlers (main.rs).                                                     *)
(*                                                                         *)
(* Spec      the server, one action per handler / indexer step.            *)
(* SpecNest  the nesting reconstruction of the document outline, applied   *)
(*           to the Pending records of a tree.                             *)
(* SpecIdx   the symbol index under concurrent upsert_doc and search_fuzzy *)
(*           calls.                                                        *)
(* FairSpecLk the shard locks of the two DashMaps, as taken by the         *)
(*           handlers and by the index tasks.                              *)
(* SpecFn    the functions that depend on their arguments alone:          *)
(*           search_fuzzy, Backend::symbol, the file filter of the walk,   *)
(*           the two extractions and start_indexer.                        *)
(***************************************************************************)
EXTENDS Integers, Sequences, FiniteSets, TLC

VARIABLES
    now,        \* the monotonic clock read by Instant::now(), in milliseconds
    docs,       \* ServerState.docs : uri -> Option<DocState>
    by_doc,     \* SymbolIndex.by_doc : uri -> Option<snapshot>
    root,       \* ServerState.root : Option<root path>
    task,       \* the index task spawned by start_indexer: its position in the walk
    handed,     \* history: the last full text the editor handed over for a uri
    swaps,      \* history: tree replacements inside the current burst of edits
    failed,     \* history: the last parser call on the document returned nothing,
                \*          and no edit arrived since
    lastOp,     \* history: the operation that produced this state
    crashed,    \* a handler panicked (the serving task unwound)
    pending,    \* SpecNest: the Pending records in the order the tree walk pushed them
    outline,    \* SpecNest: Option<the outline built from pending>
    ups,        \* SpecIdx: the upsert_doc calls in progress, with their local vector
    srch,       \* SpecIdx: the search_fuzzy call in progress, with its blocks
    found,      \* SpecIdx: Option<what the last search_fuzzy call returned>
    given,      \* SpecIdx, history: the snapshots the upsert_doc calls were asked to store
    calls,      \* SpecIdx, history: how many calls were made, and the documents in the
                \*          order their snapshots were inserted
    lk,         \* SpecLk: who holds the lock of each shard of docs and of by_doc
    layout,     \* SpecLk: the shard each key hashes to, and the policy of the locks
    itask,      \* SpecLk: the index tasks, one per root: position and file at hand
    hnd,        \* SpecLk: the handler the server is running: position and argument
    stored,     \* SpecLk: the keys of docs
    served,     \* SpecLk, history: the requests the editor has sent
    arg,        \* SpecFn: the arguments of the call at hand
    ret         \* SpecFn: Option<what the call returned>

serverVars == <<now, docs, by_doc, root, task, handed, swaps, failed, lastOp, crashed>>
nestVars == <<pending, outline>>
idxVars == <<ups, srch, found, given, calls>>
lkVars == <<lk, layout, itask, hnd, stored, served>>
fnVars == <<arg, ret>>
otherVars == <<nestVars, idxVars, lkVars, fnVars>>
vars == <<serverVars, otherVars>>

---------------------------------------------------------------------------
(* Bounds of the model *)

\* milliseconds the clock advances per Tick step
Tick == 60
\* number of Tick steps
MaxTicks == 3
\* content changes carried by one did_change notification
MaxChanges == 2

MaxTime == MaxTicks * Tick

---------------------------------------------------------------------------
(* Program constants *)

\* ServerState::default: debounce: Duration::from_millis(120)
Debounce == 120
\* DocState::new: last_parse = Instant::now() - Duration::from_secs(1)
InitialParseLag == 1000

\* Option<T>: None is the empty tuple, Some(x) the one-element tuple.
None == <<>>
Some(x) == <<x>>
IsSome(o) == o # <<>>
Get(o) == o[1]

---------------------------------------------------------------------------
(* Texts, and what the syntax provider (tree-sitter-julia) returns for them *)

\* "f()=1"
TextA == <<"f", "(", ")", "=", "1">>
\* "module M\nf()=1\nend"
TextB == <<"m", "o", "d", "u", "l", "e", " ", "M", "\n",
           "f", "(", ")", "=", "1", "\n", "e", "n", "d">>
Texts == {TextA, TextB}
\* "abc()=1"
TextC == <<"a", "b", "c", "(", ")", "=", "1">>
\* "@userplot P"
TextD == <<"@", "u", "s", "e", "r", "p", "l", "o", "t", " ", "P">>

\* Node: node type, byte range [start, end), and the byte range of the node
\* name_node() resolves for it (has_name FALSE: no name node).
Node(type, s, e, has, ns, ne) ==
    [type |-> type, start |-> s, end |-> e, has_name |-> has, ns |-> ns, ne |-> ne]

\* The nodes of the tree in the order the cursor walk visits them (preorder).
SyntaxNodes(text) ==
    CASE text = TextA ->
            << Node("source_file", 0, 5, FALSE, 0, 0),
               Node("short_function_definition", 0, 5, TRUE, 0, 1) >>
      [] text = TextB ->
            << Node("source_file", 0, 18, FALSE, 0, 0),
               Node("module_definition", 0, 18, TRUE, 7, 8),
               Node("short_function_definition", 9, 14, TRUE, 9, 10) >>
      [] text = TextC ->
            << Node("source_file", 0, 7, FALSE, 0, 0),
               Node("short_function_definition", 0, 7, TRUE, 0, 3) >>
      [] text = TextD ->
            << Node("source_file", 0, 11, FALSE, 0, 0),
               Node("macrocall_expression", 0, 11, FALSE, 0, 0) >>
      [] OTHER -> << Node("source_file", 0, Len(text), FALSE, 0, 0) >>

\* Parser::parse(text, None): a tree, or nothing (ok = FALSE).
ParserParse(text, ok) ==
    IF ok THEN Some([src |-> text, nodes |-> SyntaxNodes(text)]) ELSE None

---------------------------------------------------------------------------
(* DocState (state.rs) *)

DocState_new(text, t) ==
    [text |-> text, tree |-> None, last_edit |-> t, last_parse |-> t - InitialParseLag]

update_text(d, text, t) == [d EXCEPT !.text = text, !.last_edit = t]

\* line 45: parsed_at >= edited_at && self.tree.read().is_some()
IsFresh(d) == d.last_parse >= d.last_edit /\ IsSome(d.tree)

\* a parse_with_debounce without the check of line 48
NoDebounceWindow(d, t) == FALSE

\* line 48: edited_at.elapsed() < min_delay && self.tree.read().is_some()
InDebounceWindow(d, t) == t - d.last_edit < Debounce /\ IsSome(d.tree)

\* whether parse_with_debounce reaches the parser
InvokesParser(d, t) == ~IsFresh(d) /\ ~InDebounceWindow(d, t)

\* lines 51-55: the tree is overwritten with whatever the parser returned
StoreParse(d, parsed, t) == [d EXCEPT !.tree = parsed, !.last_parse = t]

parse_with_debounce(d, t, ok) ==
    IF InvokesParser(d, t) THEN StoreParse(d, ParserParse(d.text, ok), t) ELSE d

---------------------------------------------------------------------------
(* Symbol extraction (symbols.rs) *)

\* LineIndex::new: the byte offsets at which lines start
LineStarts(text) == {0} \cup {i \in 1..Len(text) : text[i] = "\n"}

\* LineIndex::to_pos: binary search for the last line start <= idx
to_pos(text, idx) ==
    LET below == {s \in LineStarts(text) : s <= idx}
        st == CHOOSE s \in below : \A o \in below : o <= s
    IN  [line |-> Cardinality(below) - 1, character |-> idx - st]

range_of(text, s, e) == [start |-> to_pos(text, s), end |-> to_pos(text, e)]

NoKind == "NoKind"

kind_for(node_type) ==
    CASE node_type \in {"module_definition", "bare_module_definition"} -> "MODULE"
      [] node_type \in {"function_definition", "short_function_definition"} -> "FUNCTION"
      [] node_type = "macro_definition" -> "FUNCTION"
      [] node_type \in {"struct_definition", "primitive_type_definition"} -> "STRUCT"
      [] node_type = "abstract_definition" -> "CLASS"
      [] node_type = "type_alias" -> "TYPE_PARAMETER"
      [] node_type = "const_statement" -> "CONSTANT"
      [] OTHER -> NoKind

\* the nodes for which the walk builds a symbol: classified, with a name node
IsSymbolNode(n) == kind_for(n.type) # NoKind /\ n.has_name

\* &text[a..b] on a str: in range (texts here are ASCII, every offset a char boundary)
SliceInRange(text, a, b) == a <= b /\ b <= Len(text)

Slice(text, a, b) == SubSeq(text, a + 1, b)

\* collect_document_symbols / collect_workspace_symbols: text[name_start..name_end]
\* for every symbol node of the tree; the walk panics at the first slice out of range
WalkPanics(text, tree) ==
    IsSome(tree) /\ \E i \in 1..Len(Get(tree).nodes) :
        LET n == Get(tree).nodes[i] IN IsSymbolNode(n) /\ ~SliceInRange(text, n.ns, n.ne)

\* Pending { start, end, sym: DocumentSymbol }; the symbol's children start empty
MakePending(text, n) ==
    [start |-> n.start, end |-> n.end,
     name |-> Slice(text, n.ns, n.ne), kind |-> kind_for(n.type),
     range |-> range_of(text, n.start, n.end),
     selection_range |-> range_of(text, n.ns, n.ne),
     children |-> <<>>]

RECURSIVE MapPending(_, _, _)
MapPending(text, nodes, i) ==
    IF i > Len(nodes) THEN <<>>
    ELSE (IF IsSymbolNode(nodes[i]) THEN <<MakePending(text, nodes[i])>> ELSE <<>>)
         \o MapPending(text, nodes, i + 1)

collect_document_symbols(text, tree) ==
    IF IsSome(tree) THEN MapPending(text, Get(tree).nodes, 1) ELSE <<>>

\* the comparator of out.sort_by: start, then end
PendingLess(a, b) == a.start < b.start \/ (a.start = b.start /\ a.end < b.end)

\* slice::sort_by is stable: an item goes after every item not greater than it
RECURSIVE InsertSorted(_, _)
InsertSorted(sorted, x) ==
    IF sorted = <<>> THEN <<x>>
    ELSE LET last == sorted[Len(sorted)] IN
         IF PendingLess(x, last)
         THEN Append(InsertSorted(SubSeq(sorted, 1, Len(sorted) - 1), x), last)
         ELSE Append(sorted, x)

\* an extraction that scans the records in the order the walk pushed them
KeepOrder(out) == out

RECURSIVE SortPending(_)
SortPending(out) ==
    IF out = <<>> THEN <<>>
    ELSE InsertSorted(SortPending(SubSeq(out, 1, Len(out) - 1)), out[Len(out)])

\* lines 166-175 / 182-191: pop the top of the stack into its parent's children,
\* or into the root list when the stack holds nothing else
PopFinished(st) ==
    LET finished == st.stack[Len(st.stack)]
        rest == SubSeq(st.stack, 1, Len(st.stack) - 1)
    IN  IF rest # <<>>
        THEN [stack |-> [rest EXCEPT ![Len(rest)].children = Append(@, finished)],
              root |-> st.root]
        ELSE [stack |-> rest, root |-> Append(st.root, finished)]

\* line 165: the top of the stack is closed before item is pushed
ClosesTop(item, top) == item.start >= top.end

RECURSIVE CloseBefore(_, _)
CloseBefore(st, item) ==
    IF st.stack # <<>> /\ ClosesTop(item, st.stack[Len(st.stack)])
    THEN CloseBefore(PopFinished(st), item)
    ELSE st

RECURSIVE Scan(_, _, _)
Scan(st, out, i) ==
    IF i > Len(out) THEN st
    ELSE LET closed == CloseBefore(st, out[i])
         IN  Scan([closed EXCEPT !.stack = Append(@, out[i])], out, i + 1)

\* an extraction that returns the root list without the loop of lines 181-192
LeaveOnStack(st) == st.root

RECURSIVE Drain(_)
Drain(st) == IF st.stack = <<>> THEN st.root ELSE Drain(PopFinished(st))

\* lines 157-194: sort, scan with a stack, drain
NestPending(out) == Drain(Scan([stack |-> <<>>, root |-> <<>>], SortPending(out), 1))

\* extract_document_symbols_with_cache after its parse_with_debounce call
DocumentOutline(text, tree) == NestPending(collect_document_symbols(text, tree))

MakeSymbolInformation(text, n, uri) ==
    [name |-> Slice(text, n.ns, n.ne), kind |-> kind_for(n.type),
     uri |-> uri, range |-> range_of(text, n.start, n.end)]

RECURSIVE MapSymbolInformation(_, _, _, _)
MapSymbolInformation(text, nodes, uri, i) ==
    IF i > Len(nodes) THEN <<>>
    ELSE (IF IsSymbolNode(nodes[i]) THEN <<MakeSymbolInformation(text, nodes[i], uri)>>
          ELSE <<>>)
         \o MapSymbolInformation(text, nodes, uri, i + 1)

collect_workspace_symbols(text, tree, uri) ==
    IF IsSome(tree) THEN MapSymbolInformation(text, Get(tree).nodes, uri, 1) ELSE <<>>

---------------------------------------------------------------------------
(* Heuristic synthesis over the raw text (symbols.rs, workspace list only) *)

Upper == {"A", "B", "C", "D", "E", "F", "G", "H", "I", "J", "K", "L", "M",
          "N", "O", "P", "Q", "R", "S", "T", "U", "V", "W", "X", "Y", "Z"}
Lower == {"a", "b", "c", "d", "e", "f", "g", "h", "i", "j", "k", "l", "m",
          "n", "o", "p", "q", "r", "s", "t", "u", "v", "w", "x", "y", "z"}
Digit == {"0", "1", "2", "3", "4", "5", "6", "7", "8", "9"}
\* [A-Za-z]
Alpha == Upper \cup Lower
IsAlpha(c) == c \in Alpha
\* [A-Za-z0-9_]
Word == Upper \cup Lower \cup Digit \cup {"_"}
\* \s
Space == {" ", "\t", "\n", "\r"}
IsSpace(c) == c \in Space

\* text[p..] starts with lit (p a 0-based byte offset)
StartsAt(text, p, lit) ==
    p + Len(lit) <= Len(text) /\ \A k \in 1..Len(lit) : text[p + k] = lit[k]

\* the offset after the longest run of characters of class cls that starts at p
RECURSIVE RunEnd(_, _, _)
RunEnd(text, p, cls) ==
    IF p < Len(text) /\ text[p + 1] \in cls THEN RunEnd(text, p + 1, cls) ELSE p

\* (?m)^\s* ends at p: only white space between some line start and p
AfterLineStart(text, p) ==
    \E l \in LineStarts(text) : l <= p /\ \A k \in (l + 1)..p : IsSpace(text[k])

\* line_col_of_match
line_col_of_match(text, byte_idx) ==
    LET nls == {i \in 0..(Len(text) - 1) : text[i + 1] = "\n" /\ i < byte_idx}
        last == IF nls = {} THEN 0 ELSE 1 + CHOOSE i \in nls : \A j \in nls : j <= i
    IN  [line |-> Cardinality(nls), col |-> byte_idx - last]

SynthSymbol(text, uri, ns, ne) ==
    LET lc == line_col_of_match(text, ns)
    IN  [name |-> Slice(text, ns, ne), kind |-> "FUNCTION", uri |-> uri,
         range |-> [start |-> [line |-> lc.line, character |-> lc.col],
                    end |-> [line |-> lc.line, character |-> lc.col + 1]]]

UserplotLit == <<"@", "u", "s", "e", "r", "p", "l", "o", "t">>
RecipeLit == <<"@", "r", "e", "c", "i", "p", "e">>
FunctionLit == <<"f", "u", "n", "c", "t", "i", "o", "n">>
ShorthandsLit == <<"@", "s", "h", "o", "r", "t", "h", "a", "n", "d", "s">>

\* ^\s*@userplot\s+([A-Za-z][A-Za-z0-9_]*) with the macro at offset p:
\* the offset of the captured name, or -1
UserplotName(text, p) ==
    LET q == p + Len(UserplotLit)
        n == RunEnd(text, q, Space)
    IN  IF AfterLineStart(text, p) /\ StartsAt(text, p, UserplotLit)
           /\ n > q /\ n < Len(text) /\ IsAlpha(text[n + 1])
        THEN n ELSE -1

\* ^\s*@recipe\s+function\s+([A-Za-z][A-Za-z0-9_]*)\b with the macro at offset p
RecipeName(text, p) ==
    LET q == p + Len(RecipeLit)
        f == RunEnd(text, q, Space)
        g == f + Len(FunctionLit)
        n == RunEnd(text, g, Space)
    IN  IF AfterLineStart(text, p) /\ StartsAt(text, p, RecipeLit)
           /\ f > q /\ StartsAt(text, f, FunctionLit)
           /\ n > g /\ n < Len(text) /\ IsAlpha(text[n + 1])
        THEN n ELSE -1

RECURSIVE MacroMatches(_, _, _, _)
MacroMatches(text, uri, p, macro) ==
    IF p >= Len(text) THEN <<>>
    ELSE LET n == IF macro = "userplot" THEN UserplotName(text, p)
                  ELSE RecipeName(text, p) IN
         IF n >= 0
         THEN <<SynthSymbol(text, uri, n, RunEnd(text, n, Word))>>
              \o MacroMatches(text, uri, RunEnd(text, n, Word), macro)
         ELSE MacroMatches(text, uri, p + 1, macro)

synthesize_macro_symbols(text, uri) ==
    MacroMatches(text, uri, 0, "userplot") \o MacroMatches(text, uri, 0, "recipe")

\* the lookahead window after an anchor: text.len().min(start + 600)
ShorthandWindow == 600

\* [:]?([A-Za-z][A-Za-z0-9_]*!?)[\s,\]\)] tried at offset p inside a window ending
\* at wend: [from, to) of the captured name, or <<>> when there is no match at p
IsDelimiter(c) == IsSpace(c) \/ c \in {",", "]", ")"}

ShorthandNameAt(text, p, wend) ==
    LET a == IF p < wend /\ text[p + 1] = ":" THEN p + 1 ELSE p
        Try(b) ==
            LET r == RunEnd(text, b, Word)
                e == IF r < wend /\ text[r + 1] = "!" THEN r + 1 ELSE r
            IN  IF b < wend /\ IsAlpha(text[b + 1]) /\ r <= wend
                THEN (IF e < wend /\ IsDelimiter(text[e + 1]) THEN <<b, e>>
                      ELSE IF r < wend /\ IsDelimiter(text[r + 1]) THEN <<b, r>>
                      ELSE <<>>)
                ELSE <<>>
    IN  IF Try(a) # <<>> THEN Try(a) ELSE Try(p)

RECURSIVE ShorthandNames(_, _, _, _, _)
ShorthandNames(text, uri, p, wend, acc) ==
    IF p >= wend THEN acc
    ELSE LET m == ShorthandNameAt(text, p, wend) IN
         IF m # <<>>
         THEN ShorthandNames(text, uri, m[2] + 1, wend,
                             Append(acc, SynthSymbol(text, uri, m[1], m[2])))
         ELSE ShorthandNames(text, uri, p + 1, wend, acc)

RECURSIVE ShorthandAnchors(_, _, _)
ShorthandAnchors(text, uri, p) ==
    IF p >= Len(text) THEN <<>>
    ELSE IF StartsAt(text, p, ShorthandsLit)
         THEN LET wend == IF Len(text) < p + ShorthandWindow THEN Len(text)
                          ELSE p + ShorthandWindow
              IN  ShorthandNames(text, uri, p, wend, <<>>)
                  \o ShorthandAnchors(text, uri, p + Len(ShorthandsLit))
         ELSE ShorthandAnchors(text, uri, p + 1)

synthesize_shorthand_symbols(text, uri) == ShorthandAnchors(text, uri, 0)

\* extract_workspace_symbols_with_cache after its parse_with_debounce call
WorkspaceSymbols(text, tree, uri) ==
    collect_workspace_symbols(text, tree, uri)
        \o synthesize_macro_symbols(text, uri)
        \o synthesize_shorthand_symbols(text, uri)

---------------------------------------------------------------------------
(* Documents and files *)

\* Url: scheme and path components; to_file_path() succeeds for file: urls only
Uri(scheme, path) == [scheme |-> scheme, path |-> path]

\* file:///ws/a.jl, a file of the workspace, also present on disk
UriA == Uri("file", <<"ws", "a.jl">>)
Uris == {UriA}

\* the workspace root the editor announces: /ws
WsRoot == <<"ws">>

to_file_path(uri) == IF uri.scheme = "file" THEN Some(uri.path) ELSE None

\* Path::starts_with: whole components
PathStartsWith(p, r) == Len(r) <= Len(p) /\ SubSeq(p, 1, Len(r)) = r

\* the *.jl files the walk of a root finds, with their content on disk
DiskFiles == {UriA}
DiskText(uri) == TextA

WalkFiles(r) == {u \in DiskFiles : PathStartsWith(u.path, r)}

\* index_workspace lines 164-182: under packages/ or dev/ only files with a src
\* component are indexed
IsDepot(path) == \E i \in 1..Len(path) : path[i] \in {"packages", "dev"}
HasSrc(path) == \E i \in 1..Len(path) : path[i] = "src"
PassesDepotFilter(path) == IsDepot(path) => HasSrc(path)

---------------------------------------------------------------------------
(* SymbolIndex (index.rs) *)

UpperSeq == <<"A", "B", "C", "D", "E", "F", "G", "H", "I", "J", "K", "L", "M",
              "N", "O", "P", "Q", "R", "S", "T", "U", "V", "W", "X", "Y", "Z">>
LowerSeq == <<"a", "b", "c", "d", "e", "f", "g", "h", "i", "j", "k", "l", "m",
              "n", "o", "p", "q", "r", "s", "t", "u", "v", "w", "x", "y", "z">>

\* u8::to_ascii_lowercase
AsciiLowerChar(c) ==
    IF c \in Upper THEN LowerSeq[CHOOSE i \in 1..26 : UpperSeq[i] = c] ELSE c

to_ascii_lowercase(str) == [i \in 1..Len(str) |-> AsciiLowerChar(str[i])]

\* upsert_doc lines 30-43: one SymbolEntry per symbol, in order
MakeEntry(doc_uri, sym) ==
    [name |-> sym.name, name_lowercase |-> to_ascii_lowercase(sym.name),
     uri |-> sym.uri,
     path |-> IF IsSome(to_file_path(doc_uri)) THEN Get(to_file_path(doc_uri)) ELSE <<>>,
     range |-> sym.range, kind |-> sym.kind]

BuildEntries(doc_uri, symbols) ==
    [i \in 1..Len(symbols) |-> MakeEntry(doc_uri, symbols[i])]

\* an upsert_doc whose loop builds the snapshot inside the map
BuildInPlace(index, doc_uri, out) == [index EXCEPT ![doc_uri] = Some(out)]

\* upsert_doc lines 30-43: an iteration of the loop pushes to the local vector out
\* and leaves the map as it is
BuildLocal(index, doc_uri, out) == index

\* an insert that keeps the entries the map holds for the document and adds the
\* new ones after them
MergeSnapshot(index, doc_uri, out) ==
    [index EXCEPT ![doc_uri] = Some((IF IsSome(@) THEN Get(@) ELSE <<>>) \o out)]

\* upsert_doc line 44: the one insert that replaces the snapshot
InsertSnapshot(index, doc_uri, out) == [index EXCEPT ![doc_uri] = Some(out)]

upsert_doc(index, doc_uri, symbols) ==
    InsertSnapshot(index, doc_uri, BuildEntries(doc_uri, symbols))

\* a scorer for which no character is a separator
NoBoundary(b) == FALSE

\* is_boundary
is_boundary(b) == b \in {" ", "_", "-", "/", ".", "(", ")", "[", "]"}

\* fuzzy_score lines 142-174: one pass over the name, matching the query greedily;
\* last is the offset of the previous match, -1 before the first
RECURSIVE ScoreFrom(_, _, _, _, _, _, _)
ScoreFrom(qb, nb, nblc, i, qi, score, last) ==
    IF i >= Len(nblc) \/ qi >= Len(qb)
    THEN (IF qi = Len(qb) THEN Some(score) ELSE None)
    ELSE IF nblc[i + 1] = qb[qi + 1]
         THEN LET prev == IF i = 0 THEN " " ELSE nb[i]
                  bonus == (IF is_boundary(prev) THEN 15 ELSE 0)
                           + (IF i > 0 /\ nb[i + 1] \in Upper /\ nb[i] \in Lower
                              THEN 12 ELSE 0)
                  gap == i - last - 1
                  adj == IF last >= 0
                         THEN (IF i = last + 1 THEN 8
                               ELSE 0 - 2 * (IF gap < 8 THEN gap ELSE 8))
                         ELSE (IF i < 3 THEN 5 ELSE 0)
              IN  ScoreFrom(qb, nb, nblc, i + 1, qi + 1, score + 10 + bonus + adj, i)
         ELSE ScoreFrom(qb, nb, nblc, i + 1, qi, score, last)

\* a matcher that accepts a name only when the query is its prefix
PrefixScore(q_lc, name, name_lc) ==
    IF Len(q_lc) <= Len(name_lc) /\ SubSeq(name_lc, 1, Len(q_lc)) = q_lc
    THEN Some(0) ELSE None

\* fuzzy_score lines 130-133: the empty query scores 0
fuzzy_score(q_lc, name, name_lc) ==
    IF q_lc = <<>> THEN Some(0) ELSE ScoreFrom(q_lc, name, name_lc, 0, 0, 0, -1)

\* str::trim
RECURSIVE TrimStart(_)
TrimStart(str) ==
    IF str # <<>> /\ IsSpace(str[1]) THEN TrimStart(Tail(str)) ELSE str
RECURSIVE TrimEnd(_)
TrimEnd(str) ==
    IF str # <<>> /\ IsSpace(str[Len(str)])
    THEN TrimEnd(SubSeq(str, 1, Len(str) - 1)) ELSE str
Trim(str) == TrimEnd(TrimStart(str))

to_lsp(e) == [name |-> e.name, kind |-> e.kind, uri |-> e.uri, range |-> e.range]

\* a filter that lets every entry through, whatever its path
AnyPath(e, r) == TRUE

\* root.is_none_or(|r| e.path.starts_with(r))
UnderRoot(e, r) == r = None \/ PathStartsWith(e.path, Get(r))

\* all (block, entry) positions in iteration order
Positions(blocks) ==
    LET RECURSIVE From(_)
        From(bi) == IF bi > Len(blocks) THEN <<>>
                    ELSE [ei \in 1..Len(blocks[bi]) |-> <<bi, ei>>] \o From(bi + 1)
    IN  From(1)

\* lines 64-77: the empty query takes entries in order until limit are taken
RECURSIVE TakeInOrder(_, _, _, _, _)
TakeInOrder(blocks, pos, r, limit, out) ==
    IF pos = <<>> \/ Len(out) >= limit THEN out
    ELSE LET e == blocks[pos[1][1]][pos[1][2]] IN
         TakeInOrder(blocks, Tail(pos), r, limit,
                     IF UnderRoot(e, r) THEN Append(out, to_lsp(e)) ELSE out)

\* the order of Key tuples (score, -len, -idx, bi, ei)
RECURSIVE KeyLess(_, _)
KeyLess(a, b) ==
    IF a = <<>> THEN FALSE
    ELSE a[1] < b[1] \/ (a[1] = b[1] /\ KeyLess(Tail(a), Tail(b)))

\* a pop that takes the greatest key, as a max-heap would
GreatestKey(heap) == CHOOSE k \in heap : \A o \in heap : o = k \/ KeyLess(o, k)

\* the key BinaryHeap<Reverse<Key>>::pop takes
MinKey(heap) == CHOOSE k \in heap : \A o \in heap : o = k \/ KeyLess(k, o)
MaxKey(heap) == CHOOSE k \in heap : \A o \in heap : o = k \/ KeyLess(o, k)

\* lines 94-97: push, then pop the least key when the heap holds more than limit
HeapPush(heap, key, limit) ==
    LET pushed == heap \cup {key}
    IN  IF Cardinality(pushed) > limit THEN pushed \ {MinKey(pushed)} ELSE pushed

\* lines 86-100: n is idx_counter, counting every entry, in scope or not
RECURSIVE Select(_, _, _, _, _, _, _)
Select(blocks, pos, qlc, r, limit, n, heap) ==
    IF pos = <<>> THEN heap
    ELSE LET bi == pos[1][1]
             ei == pos[1][2]
             e == blocks[bi][ei]
             score == fuzzy_score(qlc, e.name, e.name_lowercase)
         IN  Select(blocks, Tail(pos), qlc, r, limit, n + 1,
                    IF UnderRoot(e, r) /\ IsSome(score)
                    THEN HeapPush(heap, <<Get(score), 0 - Len(e.name), 0 - (n + 1),
                                          bi - 1, ei - 1>>, limit)
                    ELSE heap)

\* line 103: keys.sort_unstable_by(|a, b| b.cmp(a))
RECURSIVE SortDescending(_)
SortDescending(keys) ==
    IF keys = {} THEN <<>>
    ELSE <<MaxKey(keys)>> \o SortDescending(keys \ {MaxKey(keys)})

\* search_fuzzy over the blocks collected from by_doc
search_blocks(blocks, query, r, limit) ==
    LET q == Trim(query) IN
    IF q = <<>> THEN TakeInOrder(blocks, Positions(blocks), r, limit, <<>>)
    ELSE LET keys == SortDescending(Select(blocks, Positions(blocks),
                                           to_ascii_lowercase(q), r, limit, 0, {}))
         IN  [i \in 1..Len(keys) |-> to_lsp(blocks[keys[i][4] + 1][keys[i][5] + 1])]

\* search_fuzzy lines 53-55 and 63-110, on the blocks that lines 57-61 collected
search_fuzzy(blocks, query, r, limit) ==
    IF limit = 0 THEN <<>> ELSE search_blocks(blocks, query, r, limit)

---------------------------------------------------------------------------
(* The server: request handlers (main.rs) and the index task (state.rs) *)

NoUri == Uri("", <<>>)

\* what is kept of the step that produced a state: whether it was a parse request
\* (a call of parse_with_debounce), whether that call reached the parser, and
\* whether the parser returned nothing
Op(request, invoked, failure) ==
    [request |-> request, invoked |-> invoked, failure |-> failure]
Other == Op(FALSE, FALSE, FALSE)
Request(d, ok) == Op(TRUE, InvokesParser(d, now), InvokesParser(d, now) /\ ~ok)

SwapCap == 2

\* tree replacements counted while the latest edit is younger than the debounce interval
SwapsAfter(u, d, d2) ==
    IF d2.tree # d.tree /\ now - d.last_edit < Debounce /\ swaps[u] < SwapCap
    THEN swaps[u] + 1 ELSE swaps[u]

FailedAfter(u, d, ok) == IF InvokesParser(d, now) THEN ~ok ELSE failed[u]

\* the parser outcomes to consider for a request on d: both when it is invoked
Outcomes(d) == IF InvokesParser(d, now) THEN BOOLEAN ELSE {TRUE}

\* upsert_doc and search_fuzzy are called from the threads named here
Upserters == {"u1", "u2"}

NoCall == [pc |-> "idle", uri |-> NoUri, symbols |-> <<>>, out |-> <<>>]
NoSearch == [pc |-> "idle", todo |-> <<>>, from |-> <<>>, blocks |-> <<>>,
             query |-> <<>>, root |-> None, limit |-> 0]

IdxIdle ==
    /\ ups = [p \in Upserters |-> NoCall]
    /\ srch = NoSearch
    /\ found = None
    /\ given = [u \in Uris |-> {}]
    /\ calls = [upserts |-> 0, searches |-> 0, indexed |-> <<>>]

\* a shard lock: the writer holding it, if any, and the readers holding it
Free == [w |-> "none", r |-> {}]
Shards == {1, 2}
Tasks == {"t1", "t2"}
NoHandler == [pc |-> "idle", uri |-> NoUri, shard |-> 0]
Unspawned == [pc |-> "unspawned", todo |-> <<>>, cur |-> NoUri]

LkIdle ==
    /\ lk = [docs |-> [s \in Shards |-> Free], by_doc |-> [s \in Shards |-> Free]]
    /\ layout = [docs |-> [u \in Uris |-> 1], by_doc |-> [u \in Uris |-> 1],
                 writer_first |-> FALSE]
    /\ itask = [t \in Tasks |-> Unspawned]
    /\ hnd = NoHandler
    /\ stored = {}
    /\ served = 0

\* ServerState::default, before anything is indexed
StoreInit ==
    /\ now = 0
    /\ docs = [u \in Uris |-> None]
    /\ root = None
    /\ task = [pc |-> "uninit", left |-> {}, cur |-> NoUri]
    /\ handed = [u \in Uris |-> None]
    /\ swaps = [u \in Uris |-> 0]
    /\ failed = [u \in Uris |-> FALSE]
    /\ lastOp = Other
    /\ crashed = FALSE

ServerInit == StoreInit /\ by_doc = [u \in Uris |-> None]

NestIdle == pending = <<>> /\ outline = None

FnIdle == arg = None /\ ret = None

Init == ServerInit /\ NestIdle /\ IdxIdle /\ LkIdle /\ FnIdle

Serving == task.pc # "uninit" /\ ~crashed

\* time passes between two reads of Instant::now()
TickStep ==
    /\ ~crashed
    /\ now + Tick <= MaxTime
    /\ now' = now + Tick
    /\ lastOp' = Other
    /\ UNCHANGED <<otherVars, docs, by_doc, root, task, handed, swaps, failed, crashed>>

\* Project.toml at the root: whether it exists, and what toml::from_str makes of
\* its content: nothing (unreadable or not TOML), or a document with or without a
\* deps table, whose names are given in the order the HashSet iterates them
Manifest(exists, doc) == [exists |-> exists, doc |-> doc]
NoManifest == Manifest(FALSE, None)
TomlDoc(deps) == [deps |-> deps]

\* read_project_deps: the names of the deps table; nothing when the file cannot
\* be read or parsed or has no such table
read_project_deps(manifest) ==
    IF IsSome(manifest.doc) /\ IsSome(Get(manifest.doc).deps)
    THEN Get(Get(manifest.doc).deps) ELSE <<>>

\* lines 230-237: packages/<name> and dev/<name> of every depot, for every name
RECURSIVE LayoutRoots(_, _)
LayoutRoots(depot, deps) ==
    IF deps = <<>> THEN <<>>
    ELSE <<depot \o <<"packages", Head(deps)>>, depot \o <<"dev", Head(deps)>>>>
         \o LayoutRoots(depot, Tail(deps))

RECURSIVE DepotRoots(_, _)
DepotRoots(depots, deps) ==
    IF depots = <<>> THEN <<>>
    ELSE LayoutRoots(Head(depots), deps) \o DepotRoots(Tail(depots), deps)

\* a discovery that, finding no dependency to look for, offers the package cache of
\* every depot
WholeDepots(r, manifest, depots) ==
    [i \in 1..Len(depots) |-> depots[i] \o <<"packages">>]

\* discover_env_roots: nothing without a manifest (line 214) or without
\* dependencies (line 227)
discover_env_roots(r, manifest, depots) ==
    IF ~manifest.exists THEN <<>>
    ELSE IF read_project_deps(manifest) = <<>> THEN <<>>
    ELSE DepotRoots(depots, read_project_deps(manifest))

\* start_indexer lines 90-101: the roots, each of which gets a blocking task
IndexerRoots(r, manifest, depots) == <<r>> \o discover_env_roots(r, manifest, depots)

\* JULIA_DEPOT_PATH is unset: the depot is ~/.julia
Depots == <<<<"home", ".julia">>>>

\* initialize with a workspace root: set_root, start_indexer (one task per root,
\* spawned and not awaited)
Initialize ==
    /\ task.pc = "uninit" /\ ~crashed
    /\ root' = Some(WsRoot)
    /\ LET roots == IndexerRoots(WsRoot, NoManifest, Depots)
       IN  task' = [pc |-> "walk", left |-> WalkFiles(roots[1]), cur |-> NoUri]
    /\ lastOp' = Other
    /\ UNCHANGED <<otherVars, now, docs, by_doc, handed, swaps, failed, crashed>>

\* initialize without workspace folders or root uri: indexing is disabled
InitializeNoRoot ==
    /\ task.pc = "uninit" /\ ~crashed
    /\ task' = [pc |-> "off", left |-> {}, cur |-> NoUri]
    /\ lastOp' = Other
    /\ UNCHANGED <<otherVars, now, docs, by_doc, root, handed, swaps, failed, crashed>>

\* line 185: docs.insert(uri, DocState::new(text))
IndexStore(store, u, text, t) == [store EXCEPT ![u] = Some(DocState_new(text, t))]

\* index_workspace lines 160-185: the walk reaches a file and inserts a fresh
\* DocState holding the file's content
IndexInsert(u) ==
    /\ task.pc = "walk" /\ u \in task.left /\ ~crashed
    /\ IF PassesDepotFilter(u.path)
       THEN /\ docs' = IndexStore(docs, u, DiskText(u), now)
            /\ task' = [task EXCEPT !.pc = "inserted", !.cur = u]
            /\ swaps' = [swaps EXCEPT ![u] = 0]
            /\ failed' = [failed EXCEPT ![u] = FALSE]
       ELSE /\ task' = [task EXCEPT !.left = @ \ {u}]
            /\ UNCHANGED <<docs, swaps, failed>>
    /\ lastOp' = Other
    /\ UNCHANGED <<otherVars, now, by_doc, root, handed, crashed>>

\* index_workspace lines 186-192: extraction from the stored document, upsert
IndexExtract ==
    /\ task.pc = "inserted" /\ ~crashed
    /\ LET u == task.cur
           d == Get(docs[u])
       IN  \E ok \in Outcomes(d) :
             LET d2 == parse_with_debounce(d, now, ok) IN
             /\ docs' = [docs EXCEPT ![u] = Some(d2)]
             /\ swaps' = [swaps EXCEPT ![u] = SwapsAfter(u, d, d2)]
             /\ failed' = [failed EXCEPT ![u] = FailedAfter(u, d, ok)]
             /\ lastOp' = Request(d, ok)
             /\ IF WalkPanics(d2.text, d2.tree)
                THEN \* the blocking task unwinds; its JoinHandle result is dropped
                     /\ task' = [task EXCEPT !.pc = "done", !.cur = NoUri]
                     /\ UNCHANGED by_doc
                ELSE /\ by_doc' = upsert_doc(by_doc, u, WorkspaceSymbols(d2.text, d2.tree, u))
                     /\ task' = [pc |-> IF task.left \ {u} = {} THEN "done" ELSE "walk",
                                 left |-> task.left \ {u}, cur |-> NoUri]
    /\ UNCHANGED <<otherVars, now, root, handed, crashed>>

\* insert_doc
insert_doc(store, u, text, t) == [store EXCEPT ![u] = Some(DocState_new(text, t))]

\* did_open: insert_doc, publish_parse_diagnostics
DidOpen(u, text) ==
    /\ Serving
    /\ docs' = insert_doc(docs, u, text, now)
    /\ handed' = [handed EXCEPT ![u] = Some(text)]
    /\ swaps' = [swaps EXCEPT ![u] = 0]
    /\ failed' = [failed EXCEPT ![u] = FALSE]
    /\ lastOp' = Other
    /\ UNCHANGED <<otherVars, now, by_doc, root, task, crashed>>

\* a handler that keeps the text of the first content change
ApplyFirst(d, changes, i) ==
    IF changes = <<>> THEN d ELSE update_text(d, changes[1], now)

RECURSIVE ApplyChanges(_, _, _)
ApplyChanges(d, changes, i) ==
    IF i > Len(changes) THEN d
    ELSE ApplyChanges(update_text(d, changes[i], now), changes, i + 1)

ChangeLists == UNION {[1..n -> Texts] : n \in 0..MaxChanges}

\* did_change lines 60-65: the store after the content changes are applied
did_change(store, u, changes) ==
    IF IsSome(store[u])
    THEN [store EXCEPT ![u] = Some(ApplyChanges(Get(store[u]), changes, 1))]
    ELSE store

\* publish_parse_diagnostics: the list handed to publish_diagnostics, empty when
\* parse::parse succeeds; nothing is published for a document the store lacks
publish_parse_diagnostics(store, u, ok) ==
    IF IsSome(store[u])
    THEN Some(IF ok THEN <<>> ELSE <<"parse error">>)
    ELSE None

\* did_change: update_text for every content change of a stored document, then
\* publish_parse_diagnostics (which publishes only when the document is stored)
DidChange(u, changes) ==
    /\ Serving
    /\ IF IsSome(docs[u])
       THEN LET d == Get(docs[u]) IN
            /\ docs' = [docs EXCEPT ![u] = Some(ApplyChanges(d, changes, 1))]
            /\ handed' = IF changes # <<>> /\ IsSome(handed[u])
                         THEN [handed EXCEPT ![u] = Some(changes[Len(changes)])]
                         ELSE handed
            /\ swaps' = IF changes # <<>> /\ now - d.last_edit >= Debounce
                        THEN [swaps EXCEPT ![u] = 0] ELSE swaps
            /\ failed' = IF changes # <<>> THEN [failed EXCEPT ![u] = FALSE] ELSE failed
       ELSE UNCHANGED <<docs, handed, swaps, failed>>
    /\ lastOp' = Other
    /\ UNCHANGED <<otherVars, now, by_doc, root, task, crashed>>

\* document_symbol: extract_document_symbols_with_cache on the stored document
DocumentSymbol(u) ==
    /\ Serving
    /\ IF IsSome(docs[u])
       THEN LET d == Get(docs[u]) IN
            \E ok \in Outcomes(d) :
              LET d2 == parse_with_debounce(d, now, ok) IN
              /\ docs' = [docs EXCEPT ![u] = Some(d2)]
              /\ swaps' = [swaps EXCEPT ![u] = SwapsAfter(u, d, d2)]
              /\ failed' = [failed EXCEPT ![u] = FailedAfter(u, d, ok)]
              /\ crashed' = WalkPanics(d2.text, d2.tree)
              /\ lastOp' = Request(d, ok)
       ELSE /\ lastOp' = Other
            /\ UNCHANGED <<docs, swaps, failed, crashed>>
    /\ UNCHANGED <<otherVars, now, by_doc, root, task, handed>>

\* a loop that visits every stored document whatever the query
EveryDocument(u, r, long) == TRUE

\* symbol lines 112-128: queries of at most two characters visit only the
\* documents under the workspace root
ScopeOf(u, r, long) ==
    long \/ (IsSome(r) /\ IsSome(to_file_path(u))
             /\ PathStartsWith(Get(to_file_path(u)), Get(r)))

InScope(u, long) == ScopeOf(u, root, long)

\* symbol line 95: the query is lowercased (the alphabet of the model is ASCII)
to_lowercase(str) == to_ascii_lowercase(str)

\* str::contains
Contains(hay, needle) ==
    \E i \in 0..(Len(hay) - Len(needle)) : SubSeq(hay, i + 1, i + Len(needle)) = needle

\* symbol lines 135-147: all symbols for the empty query, else those whose
\* lowercased name contains the lowercased query
RECURSIVE FilterByName(_, _)
FilterByName(syms, q) ==
    IF syms = <<>> THEN <<>>
    ELSE (IF q = <<>> \/ Contains(to_lowercase(Head(syms).name), q)
          THEN <<Head(syms)>> ELSE <<>>) \o FilterByName(Tail(syms), q)

\* symbol lines 149-151
SymbolCap == 2000
Truncate(out, cap) == IF Len(out) > cap THEN SubSeq(out, 1, cap) ELSE out

\* symbol lines 105-148: the loop over docs.iter(), visiting the keys in order;
\* every parse of the request has the outcome ok
RECURSIVE SymbolLoop(_, _, _, _, _, _)
SymbolLoop(store, order, r, q, t, ok) ==
    IF order = <<>> THEN <<>>
    ELSE LET u == Head(order)
             d2 == parse_with_debounce(Get(store[u]), t, ok)
         IN  (IF IsSome(store[u]) /\ ScopeOf(u, r, Len(q) > 2)
              THEN FilterByName(WorkspaceSymbols(d2.text, d2.tree, u), q)
              ELSE <<>>)
             \o SymbolLoop(store, Tail(order), r, q, t, ok)

\* what Backend::symbol responds with
symbol(store, order, r, query, t, ok) ==
    Truncate(SymbolLoop(store, order, r, to_lowercase(query), t, ok), SymbolCap)

\* symbol: extract_workspace_symbols_with_cache on the stored documents in scope
Symbol(u, long) ==
    /\ Serving
    /\ IF IsSome(docs[u]) /\ InScope(u, long)
       THEN LET d == Get(docs[u]) IN
            \E ok \in Outcomes(d) :
              LET d2 == parse_with_debounce(d, now, ok) IN
              /\ docs' = [docs EXCEPT ![u] = Some(d2)]
              /\ swaps' = [swaps EXCEPT ![u] = SwapsAfter(u, d, d2)]
              /\ failed' = [failed EXCEPT ![u] = FailedAfter(u, d, ok)]
              /\ crashed' = WalkPanics(d2.text, d2.tree)
              /\ lastOp' = Request(d, ok)
       ELSE /\ lastOp' = Other
            /\ UNCHANGED <<docs, swaps, failed, crashed>>
    /\ UNCHANGED <<otherVars, now, by_doc, root, task, handed>>

Next ==
    \/ TickStep
    \/ Initialize
    \/ InitializeNoRoot
    \/ \E u \in Uris : IndexInsert(u)
    \/ IndexExtract
    \/ \E u \in Uris, text \in Texts : DidOpen(u, text)
    \/ \E u \in Uris, changes \in ChangeLists : DidChange(u, changes)
    \/ \E u \in Uris : DocumentSymbol(u)
    \/ \E u \in Uris, long \in BOOLEAN : Symbol(u, long)

Spec == Init /\ [][Next]_vars

---------------------------------------------------------------------------
(* SpecNest: extract_document_symbols_with_cache lines 157-194 on the Pending
   records of an arbitrary tree *)

\* largest byte offset of a node
MaxOffset == 3
\* most Pending records of one tree
MaxPending == 3

Ranges == {r \in (0..MaxOffset) \X (0..MaxOffset) : r[1] < r[2]}

\* two syntax nodes of one tree are disjoint or nested
Laminar(a, b) ==
    \/ a[2] <= b[1] \/ b[2] <= a[1]
    \/ (a[1] <= b[1] /\ b[2] <= a[2])
    \/ (b[1] <= a[1] /\ a[2] <= b[2])

\* the cursor walk is a preorder walk: a node is visited before the nodes inside it
\* and before the nodes that start after it
WalkOrder(rs) ==
    \A i, j \in 1..Len(rs) : i < j =>
        /\ Laminar(rs[i], rs[j])
        /\ rs[i][1] < rs[j][1] \/ (rs[i][1] = rs[j][1] /\ rs[i][2] >= rs[j][2])

PendingOf(rs) ==
    [i \in 1..Len(rs) |->
        [start |-> rs[i][1], end |-> rs[i][2], name |-> <<"s", i>>, kind |-> "FUNCTION",
         range |-> rs[i], selection_range |-> rs[i], children |-> <<>>]]

NestInputs ==
    {PendingOf(rs) : rs \in {q \in UNION {[1..n -> Ranges] : n \in 0..MaxPending} :
                               WalkOrder(q)}}

NestInit == ServerInit /\ IdxIdle /\ LkIdle /\ FnIdle /\ pending \in NestInputs /\ outline = None

NestStep ==
    /\ outline = None
    /\ outline' = Some(NestPending(pending))
    /\ UNCHANGED <<serverVars, idxVars, lkVars, fnVars, pending>>

NestNext == NestStep

SpecNest == NestInit /\ [][NestNext]_vars

(* SpecIdx: SymbolIndex under concurrent upsert_doc and search_fuzzy calls.  The
   map is a DashMap: insert and the visit of one entry by iter() are atomic, and
   nothing else is *)

\* upsert_doc calls made in one run
MaxUpserts == 2
\* search_fuzzy calls made in one run
MaxSearches == 1
\* largest limit a search is called with
MaxLimit == 2

\* file:///dep/src/b.jl, a file outside the workspace root
UriB == Uri("file", <<"dep", "src", "b.jl">>)
IdxUris == {UriA, UriB}

IdxSymbol(u, name, line) ==
    [name |-> name, kind |-> "FUNCTION", uri |-> u,
     range |-> [start |-> [line |-> line, character |-> 0],
                end |-> [line |-> line, character |-> Len(name)]]]

\* the symbol lists extraction hands to upsert_doc
SymbolLists(u) ==
    {<<IdxSymbol(u, <<"a", "b">>, 0), IdxSymbol(u, <<"b">>, 1)>>,
     <<IdxSymbol(u, <<"B", "a">>, 0), IdxSymbol(u, <<"a", "_", "b">>, 1)>>}

SearchQueries == {<<>>, <<"B", " ">>}
SearchRoots == {None, Some(WsRoot)}

\* the orders in which by_doc.iter() can visit the keys
IterOrders == {<<UriA, UriB>>, <<UriB, UriA>>}

IdxInit ==
    /\ StoreInit /\ NestIdle /\ LkIdle /\ FnIdle
    /\ by_doc = [u \in IdxUris |-> None]
    /\ ups = [p \in Upserters |-> NoCall]
    /\ srch = NoSearch
    /\ found = None
    /\ given = [u \in IdxUris |-> {}]
    /\ calls = [upserts |-> 0, searches |-> 0, indexed |-> <<>>]

\* upsert_doc lines 30-31
UpsertCall(p, u, symbols) ==
    /\ ups[p].pc = "idle"
    /\ calls.upserts < MaxUpserts
    /\ ups' = [ups EXCEPT ![p] = [pc |-> "build", uri |-> u, symbols |-> symbols,
                                  out |-> <<>>]]
    /\ given' = [given EXCEPT ![u] = @ \cup {BuildEntries(u, symbols)}]
    /\ calls' = [calls EXCEPT !.upserts = @ + 1]
    /\ UNCHANGED <<serverVars, nestVars, lkVars, fnVars, srch, found>>

\* upsert_doc lines 32-43: one iteration of the loop
UpsertPush(p) ==
    /\ ups[p].pc = "build"
    /\ Len(ups[p].out) < Len(ups[p].symbols)
    /\ LET out == Append(ups[p].out,
                         MakeEntry(ups[p].uri, ups[p].symbols[Len(ups[p].out) + 1]))
       IN  /\ ups' = [ups EXCEPT ![p].out = out]
           /\ by_doc' = BuildLocal(by_doc, ups[p].uri, out)
    /\ UNCHANGED <<now, docs, root, task, handed, swaps, failed, lastOp, crashed,
                   nestVars, lkVars, fnVars, srch, found, given, calls>>

\* upsert_doc line 44
UpsertInsert(p) ==
    /\ ups[p].pc = "build"
    /\ Len(ups[p].out) = Len(ups[p].symbols)
    /\ by_doc' = InsertSnapshot(by_doc, ups[p].uri, ups[p].out)
    /\ ups' = [ups EXCEPT ![p] = NoCall]
    /\ calls' = [calls EXCEPT !.indexed = Append(@, ups[p].uri)]
    /\ UNCHANGED <<now, docs, root, task, handed, swaps, failed, lastOp, crashed,
                   nestVars, lkVars, fnVars, srch, found, given>>

\* search_fuzzy lines 53-55: a limit of 0 returns before the map is read
SearchCall(query, r, limit, order) ==
    /\ srch.pc = "idle"
    /\ calls.searches < MaxSearches
    /\ calls' = [calls EXCEPT !.searches = @ + 1]
    /\ IF limit = 0
       THEN /\ found' = Some(<<>>)
            /\ srch' = NoSearch
       ELSE /\ found' = None
            /\ srch' = [pc |-> "collect", todo |-> order, from |-> <<>>,
                        blocks |-> <<>>, query |-> query, root |-> r, limit |-> limit]
    /\ UNCHANGED <<serverVars, nestVars, lkVars, fnVars, ups, given>>

\* search_fuzzy lines 57-61: iter() reaches the next key and, if it is in the map,
\* clones the Arc of its snapshot
SearchVisit ==
    /\ srch.pc = "collect"
    /\ srch.todo # <<>>
    /\ LET u == Head(srch.todo) IN
       srch' = IF IsSome(by_doc[u])
               THEN [srch EXCEPT !.todo = Tail(@), !.from = Append(@, u),
                                 !.blocks = Append(@, Get(by_doc[u]))]
               ELSE [srch EXCEPT !.todo = Tail(@)]
    /\ UNCHANGED <<serverVars, nestVars, lkVars, fnVars, ups, found, given, calls>>

\* search_fuzzy lines 63-110 work on the blocks alone
SearchReturn ==
    /\ srch.pc = "collect"
    /\ srch.todo = <<>>
    /\ found' = Some(search_blocks(srch.blocks, srch.query, srch.root, srch.limit))
    /\ srch' = [srch EXCEPT !.pc = "idle"]
    /\ UNCHANGED <<serverVars, nestVars, lkVars, fnVars, ups, given, calls>>

IdxNext ==
    \/ \E p \in Upserters, u \in IdxUris : \E symbols \in SymbolLists(u) :
          UpsertCall(p, u, symbols)
    \/ \E p \in Upserters : UpsertPush(p)
    \/ \E p \in Upserters : UpsertInsert(p)
    \/ \E query \in SearchQueries, r \in SearchRoots, limit \in 0..MaxLimit,
          order \in IterOrders : SearchCall(query, r, limit, order)
    \/ SearchVisit
    \/ SearchReturn

SpecIdx == IdxInit /\ [][IdxNext]_vars

(* SpecLk: the locks.  docs and by_doc are DashMaps: each key hashes to a shard and
   each shard is a reader-writer lock.  get and iter hold a shard for reading as
   long as the guard lives, get_mut holds it for writing, insert takes it for
   writing and gives it back before it returns.  The locks inside a DocState and
   the root lock are taken and released within one statement (state.rs lines 35,
   43-45, 48, 54-55, 59, 77, 81), so no thread waits while it holds one *)

\* requests the editor sends in one run, initialize included
MaxRequests == 3

\* the files under the root of each task
TaskFiles(t) == IF t = "t1" THEN <<UriA>> ELSE <<UriB>>

Layouts ==
    {[docs |-> [u \in IdxUris |-> IF u = UriA THEN 1 ELSE a],
      by_doc |-> [u \in IdxUris |-> IF u = UriA THEN 1 ELSE b],
      writer_first |-> wf] : a \in Shards, b \in Shards, wf \in BOOLEAN}

LkInit ==
    /\ ServerInit /\ NestIdle /\ IdxIdle /\ FnIdle
    /\ lk = [docs |-> [s \in Shards |-> Free], by_doc |-> [s \in Shards |-> Free]]
    /\ layout \in Layouts
    /\ itask = [t \in Tasks |-> Unspawned]
    /\ hnd = NoHandler
    /\ stored = {}
    /\ served = 0

\* the threads blocked in a write acquisition of a shard
WritersWaiting(map, s) ==
    IF map = "docs"
    THEN {t \in Tasks : itask[t].pc = "insert" /\ layout.docs[itask[t].cur] = s}
         \cup (IF hnd.pc \in {"open_insert", "change_mut"} /\ layout.docs[hnd.uri] = s
               THEN {"h"} ELSE {})
    ELSE {t \in Tasks : itask[t].pc = "upsert" /\ layout.by_doc[itask[t].cur] = s}

\* a reader gets the shard unless it is held for writing; under a writer-first
\* policy it also waits while a writer is queued behind the current readers
CanRead(map, s) ==
    /\ lk[map][s].w = "none"
    /\ ~(layout.writer_first /\ lk[map][s].r # {} /\ WritersWaiting(map, s) # {})

CanWrite(map, s) == lk[map][s].w = "none" /\ lk[map][s].r = {}

ReadLock(map, s, who) == [lk EXCEPT ![map][s].r = @ \cup {who}]
ReadUnlock(map, s, who) == [lk EXCEPT ![map][s].r = @ \ {who}]

\* a start_indexer that awaits the handles of its tasks before it returns
IndexerJoined(tasks) == \A t \in Tasks : tasks[t].pc = "done"

\* start_indexer lines 103-107: the handles go to a detached task, and
\* start_indexer returns at once whatever the index tasks have done
IndexerStarted(tasks) == TRUE

\* initialize, main.rs lines 23-49
LkInitialize(with_root) ==
    /\ hnd.pc = "idle" /\ served = 0
    /\ served' = 1
    /\ hnd' = [NoHandler EXCEPT !.pc = IF with_root THEN "start_indexer"
                                       ELSE "initialized"]
    /\ UNCHANGED <<serverVars, nestVars, idxVars, fnVars, lk, layout, itask, stored>>

\* start_indexer lines 84-102: one blocking task per root
LkStartIndexer ==
    /\ hnd.pc = "start_indexer"
    /\ itask' = [t \in Tasks |-> [pc |-> "walk", todo |-> TaskFiles(t), cur |-> NoUri]]
    /\ hnd' = [hnd EXCEPT !.pc = "initialized"]
    /\ UNCHANGED <<serverVars, nestVars, idxVars, fnVars, lk, layout, stored, served>>

LkInitialized ==
    /\ hnd.pc = "initialized"
    /\ IndexerStarted(itask)
    /\ hnd' = NoHandler
    /\ UNCHANGED <<serverVars, nestVars, idxVars, fnVars, lk, layout, itask, stored, served>>

\* index_workspace lines 150-184: the walk reaches the next file and reads it
LkWalk(t) ==
    /\ itask[t].pc = "walk"
    /\ itask' = [itask EXCEPT ![t] =
                    IF @.todo = <<>> THEN [@ EXCEPT !.pc = "done"]
                    ELSE [pc |-> "insert", todo |-> Tail(@.todo), cur |-> Head(@.todo)]]
    /\ UNCHANGED <<serverVars, nestVars, idxVars, fnVars, lk, layout, hnd, stored, served>>

\* index_workspace line 185: docs.insert
LkInsert(t) ==
    /\ itask[t].pc = "insert"
    /\ CanWrite("docs", layout.docs[itask[t].cur])
    /\ stored' = stored \cup {itask[t].cur}
    /\ itask' = [itask EXCEPT ![t].pc = "get"]
    /\ UNCHANGED <<serverVars, nestVars, idxVars, fnVars, lk, layout, hnd, served>>

\* index_workspace line 187: docs.get, the guard lives to line 192
LkGet(t) ==
    /\ itask[t].pc = "get"
    /\ CanRead("docs", layout.docs[itask[t].cur])
    /\ lk' = ReadLock("docs", layout.docs[itask[t].cur], t)
    /\ itask' = [itask EXCEPT ![t].pc = "extract"]
    /\ UNCHANGED <<serverVars, nestVars, idxVars, fnVars, layout, hnd, stored, served>>

\* index_workspace lines 188-190: extract_workspace_symbols_with_cache
LkExtract(t) ==
    /\ itask[t].pc = "extract"
    /\ itask' = [itask EXCEPT ![t].pc = "upsert"]
    /\ UNCHANGED <<serverVars, nestVars, idxVars, fnVars, lk, layout, hnd, stored, served>>

\* index_workspace line 191: upsert_doc, whose by_doc.insert takes the shard of by_doc
LkUpsert(t) ==
    /\ itask[t].pc = "upsert"
    /\ CanWrite("by_doc", layout.by_doc[itask[t].cur])
    /\ itask' = [itask EXCEPT ![t].pc = "drop"]
    /\ UNCHANGED <<serverVars, nestVars, idxVars, fnVars, lk, layout, hnd, stored, served>>

\* index_workspace line 192: the guard of line 187 is dropped
LkDrop(t) ==
    /\ itask[t].pc = "drop"
    /\ lk' = ReadUnlock("docs", layout.docs[itask[t].cur], t)
    /\ itask' = [itask EXCEPT ![t].pc = "walk"]
    /\ UNCHANGED <<serverVars, nestVars, idxVars, fnVars, layout, hnd, stored, served>>

FirstStep(kind) ==
    CASE kind = "did_open" -> "open_insert"
      [] kind = "did_change" -> "change_mut"
      [] kind = "document_symbol" -> "ds_get"
      [] kind = "symbol" -> "sym_lock"

Kinds == {"did_open", "did_change", "document_symbol", "symbol"}

\* the editor sends a request
LkRequest(kind, u) ==
    /\ hnd.pc = "idle" /\ served > 0 /\ served < MaxRequests
    /\ served' = served + 1
    /\ hnd' = [pc |-> FirstStep(kind), uri |-> u, shard |-> 1]
    /\ UNCHANGED <<serverVars, nestVars, idxVars, fnVars, lk, layout, itask, stored>>

\* did_open, main.rs line 55: insert_doc
LkOpenInsert ==
    /\ hnd.pc = "open_insert"
    /\ CanWrite("docs", layout.docs[hnd.uri])
    /\ stored' = stored \cup {hnd.uri}
    /\ hnd' = [hnd EXCEPT !.pc = "publish"]
    /\ UNCHANGED <<serverVars, nestVars, idxVars, fnVars, lk, layout, itask, served>>

\* did_change, main.rs line 61: docs.get_mut, the guard lives to line 65
LkChangeMut ==
    /\ hnd.pc = "change_mut"
    /\ CanWrite("docs", layout.docs[hnd.uri])
    /\ IF hnd.uri \in stored
       THEN /\ lk' = [lk EXCEPT !["docs"][layout.docs[hnd.uri]].w = "h"]
            /\ hnd' = [hnd EXCEPT !.pc = "change_update"]
       ELSE /\ lk' = lk
            /\ hnd' = [hnd EXCEPT !.pc = "publish"]
    /\ UNCHANGED <<serverVars, nestVars, idxVars, fnVars, layout, itask, stored, served>>

\* did_change, main.rs lines 62-65: update_text, then the guard is dropped
LkChangeUpdate ==
    /\ hnd.pc = "change_update"
    /\ lk' = [lk EXCEPT !["docs"][layout.docs[hnd.uri]].w = "none"]
    /\ hnd' = [hnd EXCEPT !.pc = "publish"]
    /\ UNCHANGED <<serverVars, nestVars, idxVars, fnVars, layout, itask, stored, served>>

\* publish_parse_diagnostics, main.rs lines 164-173: docs.get, text(), guard dropped
LkPublish ==
    /\ hnd.pc = "publish"
    /\ CanRead("docs", layout.docs[hnd.uri])
    /\ hnd' = NoHandler
    /\ UNCHANGED <<serverVars, nestVars, idxVars, fnVars, lk, layout, itask, stored, served>>

\* document_symbol, main.rs line 74: docs.get
LkDsGet ==
    /\ hnd.pc = "ds_get"
    /\ CanRead("docs", layout.docs[hnd.uri])
    /\ IF hnd.uri \in stored
       THEN /\ lk' = ReadLock("docs", layout.docs[hnd.uri], "h")
            /\ hnd' = [hnd EXCEPT !.pc = "ds_extract"]
       ELSE /\ lk' = lk
            /\ hnd' = NoHandler
    /\ UNCHANGED <<serverVars, nestVars, idxVars, fnVars, layout, itask, stored, served>>

\* document_symbol, main.rs lines 75-87: extraction, then the guard is dropped
LkDsExtract ==
    /\ hnd.pc = "ds_extract"
    /\ lk' = ReadUnlock("docs", layout.docs[hnd.uri], "h")
    /\ hnd' = NoHandler
    /\ UNCHANGED <<serverVars, nestVars, idxVars, fnVars, layout, itask, stored, served>>

\* symbol, main.rs line 105: docs.iter() enters the next shard
LkSymLock ==
    /\ hnd.pc = "sym_lock"
    /\ CanRead("docs", hnd.shard)
    /\ lk' = ReadLock("docs", hnd.shard, "h")
    /\ hnd' = [hnd EXCEPT !.pc = "sym_visit"]
    /\ UNCHANGED <<serverVars, nestVars, idxVars, fnVars, layout, itask, stored, served>>

\* symbol, main.rs lines 106-148: the documents of the shard, then the shard is left
LkSymVisit ==
    /\ hnd.pc = "sym_visit"
    /\ lk' = ReadUnlock("docs", hnd.shard, "h")
    /\ hnd' = IF hnd.shard + 1 \in Shards
              THEN [hnd EXCEPT !.pc = "sym_lock", !.shard = @ + 1]
              ELSE NoHandler
    /\ UNCHANGED <<serverVars, nestVars, idxVars, fnVars, layout, itask, stored, served>>

\* the steps of a handler that is running
HandlerStep ==
    \/ LkStartIndexer \/ LkInitialized
    \/ LkOpenInsert \/ LkChangeMut \/ LkChangeUpdate \/ LkPublish
    \/ LkDsGet \/ LkDsExtract \/ LkSymLock \/ LkSymVisit

\* the steps of an index task from its first lock request to its last release
TaskLockStep(t) ==
    LkInsert(t) \/ LkGet(t) \/ LkExtract(t) \/ LkUpsert(t) \/ LkDrop(t)

LkNext ==
    \/ \E with_root \in BOOLEAN : LkInitialize(with_root)
    \/ \E kind \in Kinds, u \in IdxUris : LkRequest(kind, u)
    \/ HandlerStep
    \/ \E t \in Tasks : LkWalk(t)
    \/ \E t \in Tasks : TaskLockStep(t)

\* a handler that can take a step takes it, and so does an index task once it has
\* asked for a lock; nothing is assumed about how fast a task walks its root
FairSpecLk ==
    /\ LkInit /\ [][LkNext]_vars
    /\ WF_vars(HandlerStep)
    /\ \A t \in Tasks : WF_vars(TaskLockStep(t))

---------------------------------------------------------------------------
(* SpecFn: the functions that depend on their arguments alone.  The initial state
   draws the arguments of one call, the action of the function applies it and
   stores what it returned *)

\* longest snapshot of a document in the index
MaxEntries == 2

FnNames == {<<"a", "b">>, <<"a", "_", "b">>, <<"B">>}

\* the snapshot upsert_doc stores for u when extraction found these names in order
FnBlock(u, names) ==
    BuildEntries(u, [i \in 1..Len(names) |-> IdxSymbol(u, names[i], i - 1)])

NameLists == UNION {[1..n -> FnNames] : n \in 0..MaxEntries}

\* the blocks lines 57-61 collect: one per document, in the order of the iteration
FnBlocks ==
    {<<FnBlock(order[1], a), FnBlock(order[2], b)>> :
        order \in IterOrders, a \in NameLists, b \in NameLists}

FnQueries == FnNames \cup {<<>>, <<" ">>, <<"a", " ">>, <<"b", "a">>}

SearchInputs ==
    [fn : {"search_fuzzy"}, blocks : FnBlocks, query : FnQueries,
     root : SearchRoots, limit : 0..MaxLimit]

FnTexts == {TextA, TextC, TextD}

\* a document of the store: absent, as did_open leaves it, or as index_workspace
\* leaves it after its parse
FnDocs ==
    {None} \cup {Some(DocState_new(text, 0)) : text \in FnTexts}
           \cup {Some(parse_with_debounce(DocState_new(text, 0), 0, TRUE)) :
                    text \in FnTexts}

SymbolQueries == {<<>>, <<"F">>, <<"a", "c">>, <<"a", "b", "c">>, <<"A", "B", "C">>}

\* a workspace-symbol request: the store, the order docs.iter() visits it in, the
\* root, the query, the outcome of the parses of the request, and the documents
\* whose snapshot index_workspace has put in the index so far
SymbolInputs ==
    {a \in [fn : {"symbol"}, store : [IdxUris -> FnDocs], order : IterOrders,
            root : SearchRoots, query : SymbolQueries, ok : BOOLEAN,
            indexed : SUBSET IdxUris] :
        \A u \in a.indexed : IsSome(a.store[u]) /\ IsSome(Get(a.store[u]).tree)}

\* the roots start_indexer walks: the workspace root, and the two layouts of a
\* dependency P under a depot
PackagesRoot == <<"depot", "packages", "P">>
DevRoot == <<"depot", "dev", "P">>
WalkRoots == {WsRoot, PackagesRoot, DevRoot}

\* a *.jl file the walk of a root meets, by its path below the root
WalkInputs ==
    [fn : {"index_workspace"}, root : WalkRoots,
     file : {<<"a.jl">>, <<"src", "a.jl">>, <<"test", "a.jl">>, <<"dev", "a.jl">>,
             <<"packages", "a.jl">>}]

\* an extraction from a document as did_open or index_workspace stored it; ok is
\* the outcome of the parse the extraction starts with
ExtractInputs ==
    [fn : {"extract"}, text : Texts \cup FnTexts, uri : IdxUris, ok : BOOLEAN]

\* start_indexer on a root, with the manifest found there, the depots of the
\* environment and the directories that exist under the depots
IndexerInputs ==
    [fn : {"start_indexer"}, root : {WsRoot},
     manifest : {NoManifest, Manifest(TRUE, None), Manifest(TRUE, Some(TomlDoc(None)))}
                \cup {Manifest(TRUE, Some(TomlDoc(Some(deps)))) :
                         deps \in {<<>>, <<"P">>, <<"P", "Q">>}},
     depots : {Depots, <<<<"depot">>, <<"home", ".julia">>>>},
     existing : SUBSET {<<"home", ".julia", "packages", "P">>,
                        <<"home", ".julia", "dev", "P">>}]

\* names for fuzzy_score: a separator, camel case, a first match behind the third
\* character, a repeated character, a gap above the cap of the penalty
ScoreNames ==
    {<<"a", "b">>, <<"a", "_", "b">>, <<"a", "B">>, <<"A", "b">>, <<"a", "b", "a", "b">>,
     <<"x", "x", "x", "a", "b">>,
     <<"a", "x", "x", "x", "x", "x", "x", "x", "x", "x", "b">>}

\* search_fuzzy hands fuzzy_score the trimmed, lowercased query
ScoreQueries ==
    {<<>>, <<"a">>, <<"b">>, <<"x">>, <<"a", "b">>, <<"b", "a">>, <<"b", "b">>,
     <<"x", "b">>, <<"a", "x", "b">>}

ScoreInputs == [fn : {"fuzzy_score"}, q_lc : ScoreQueries, name : ScoreNames]

\* a change notification: the store, the document, the content changes, and the
\* outcome of the parse of publish_parse_diagnostics
ChangeInputs ==
    [fn : {"did_change"},
     store : [IdxUris -> {None} \cup {Some(DocState_new(text, 0)) : text \in Texts}],
     uri : IdxUris, changes : ChangeLists, ok : BOOLEAN]

FnInit ==
    /\ ServerInit /\ NestIdle /\ IdxIdle /\ LkIdle
    /\ \/ arg \in {Some(a) : a \in SearchInputs}
       \/ arg \in {Some(a) : a \in SymbolInputs}
       \/ arg \in {Some(a) : a \in WalkInputs}
       \/ arg \in {Some(a) : a \in ExtractInputs}
       \/ arg \in {Some(a) : a \in IndexerInputs}
       \/ arg \in {Some(a) : a \in ScoreInputs}
       \/ arg \in {Some(a) : a \in ChangeInputs}
    /\ ret = None

Calling(fn) == arg # None /\ Get(arg).fn = fn /\ ret = None

FnSearchFuzzy ==
    /\ Calling("search_fuzzy")
    /\ ret' = Some(search_fuzzy(Get(arg).blocks, Get(arg).query, Get(arg).root,
                                Get(arg).limit))
    /\ UNCHANGED <<serverVars, nestVars, idxVars, lkVars, arg>>

FnSymbol ==
    /\ Calling("symbol")
    /\ ret' = Some(symbol(Get(arg).store, Get(arg).order, Get(arg).root,
                          Get(arg).query, now, Get(arg).ok))
    /\ UNCHANGED <<serverVars, nestVars, idxVars, lkVars, arg>>

\* index_workspace lines 160-185 for one file: whether the walk stores it
FnWalk ==
    /\ Calling("index_workspace")
    /\ ret' = Some(PassesDepotFilter(Get(arg).root \o Get(arg).file))
    /\ UNCHANGED <<serverVars, nestVars, idxVars, lkVars, arg>>

\* extract_document_symbols_with_cache and extract_workspace_symbols_with_cache on
\* the cache their parse_with_debounce call leaves
FnExtract ==
    /\ Calling("extract")
    /\ LET d2 == parse_with_debounce(DocState_new(Get(arg).text, now), now, Get(arg).ok)
       IN  ret' = Some([tree |-> d2.tree,
                        outline |-> DocumentOutline(d2.text, d2.tree),
                        workspace |-> WorkspaceSymbols(d2.text, d2.tree, Get(arg).uri)])
    /\ UNCHANGED <<serverVars, nestVars, idxVars, lkVars, arg>>

\* start_indexer: the extra roots found, and the root of every task spawned
FnStartIndexer ==
    /\ Calling("start_indexer")
    /\ ret' = Some([extra |-> discover_env_roots(Get(arg).root, Get(arg).manifest,
                                                 Get(arg).depots),
                    tasks |-> IndexerRoots(Get(arg).root, Get(arg).manifest,
                                           Get(arg).depots)])
    /\ UNCHANGED <<serverVars, nestVars, idxVars, lkVars, arg>>

\* fuzzy_score on a name and the lowercase copy upsert_doc stored with it
FnFuzzyScore ==
    /\ Calling("fuzzy_score")
    /\ ret' = Some(fuzzy_score(Get(arg).q_lc, Get(arg).name,
                               to_ascii_lowercase(Get(arg).name)))
    /\ UNCHANGED <<serverVars, nestVars, idxVars, lkVars, arg>>

\* did_change: the store it leaves and what it publishes
FnDidChange ==
    /\ Calling("did_change")
    /\ LET after == did_change(Get(arg).store, Get(arg).uri, Get(arg).changes)
       IN  ret' = Some([docs |-> after,
                        published |-> publish_parse_diagnostics(after, Get(arg).uri,
                                                                Get(arg).ok)])
    /\ UNCHANGED <<serverVars, nestVars, idxVars, lkVars, arg>>

FnNext ==
    \/ FnSearchFuzzy
    \/ FnDidChange
    \/ FnFuzzyScore
    \/ FnStartIndexer
    \/ FnExtract
    \/ FnWalk
    \/ FnSymbol

SpecFn == FnInit /\ [][FnNext]_vars

\* every child's range lies inside node's range, at every depth
RECURSIVE ChildrenInside(_)
ChildrenInside(node) ==
    \A i \in 1..Len(node.children) :
        /\ node.start <= node.children[i].start
        /\ node.children[i].end <= node.end
        /\ ChildrenInside(node.children[i])

Disjoint(a, b) == a.end <= b.start \/ b.end <= a.start

\* no two nodes of a sibling list overlap, at every depth
RECURSIVE SiblingsApart(_)
SiblingsApart(nodes) ==
    /\ \A i, j \in 1..Len(nodes) : i < j => Disjoint(nodes[i], nodes[j])
    /\ \A i \in 1..Len(nodes) : SiblingsApart(nodes[i].children)

---------------------------------------------------------------------------
(* Claims *)

Doc(u) == Get(docs[u])

\* C1: when a parse request finds a tree cached, a tree is cached after it,
\* whatever the parser returned: the cache never goes back from a tree to none.
C1_TreeNeverCleared ==
    [][\A u \in Uris :
          (IsSome(docs[u]) /\ IsSome(Doc(u).tree) /\ lastOp'.request)
              => (IsSome(docs'[u]) /\ IsSome(Get(docs'[u]).tree))]_vars

\* C2: no extraction pass (document outline, workspace list) panics, also when the
\* cached tree is older than the text it is walked with.
C2_ExtractionNeverRaises == ~crashed

\* C3: while edits arrive less than the debounce interval apart, parse requests
\* replace the cached tree at most once (so never once per edit).
C3_DebouncedSwaps == \A u \in Uris : swaps[u] <= 1

\* C3 witness: a request served inside a burst of edits kept the stale tree, after
\* the one replacement of the burst.
C3_Witness ==
    \E u \in Uris :
        /\ IsSome(docs[u]) /\ IsSome(Doc(u).tree)
        /\ swaps[u] = 1 /\ lastOp.request /\ ~lastOp.invoked
        /\ Doc(u).last_edit > Doc(u).last_parse
        /\ now - Doc(u).last_edit < Debounce
        /\ Get(Doc(u).tree).src # Doc(u).text

\* C4: after a parse request made at least the debounce interval after the last
\* edit, with a parser that did not fail, the cached tree is the tree of the
\* current text.
C4_FreshAfterPause ==
    \A u \in Uris :
        (IsSome(docs[u]) /\ lastOp.request /\ ~lastOp.failure
            /\ now - Doc(u).last_edit >= Debounce)
        => Doc(u).tree = ParserParse(Doc(u).text, TRUE)

\* C5: a failed parser call advances last_parse, and after it requests do not
\* call the parser again until an edit arrives.
C5_NoReparseAfterFailure ==
    [][\A u \in Uris :
          /\ (lastOp'.failure /\ IsSome(docs'[u])) => Get(docs'[u]).last_parse = now'
          /\ (failed[u] /\ lastOp'.request) => ~lastOp'.invoked]_vars

\* C6: in the outline, every child's range lies inside its parent's range and no
\* two siblings overlap.
C6_OutlineNested ==
    IsSome(outline) =>
        /\ \A i \in 1..Len(Get(outline)) : ChildrenInside(Get(outline)[i])
        /\ SiblingsApart(Get(outline))

\* C7: the store holds, for a document the editor opened, the last full text the
\* editor handed over.
C7_StoreHoldsEditorText ==
    \A u \in Uris :
        IsSome(handed[u]) => (IsSome(docs[u]) /\ Doc(u).text = Get(handed[u]))

\* C8: every block a search_fuzzy call holds for a document is, whole, one of the
\* snapshots an upsert_doc call was asked to store for that document (the one in
\* the map before some upsert or the one after it), and every result the call
\* returns is an entry of one of its blocks
C8_WholeSnapshots ==
    /\ \A i \in 1..Len(srch.blocks) : srch.blocks[i] \in given[srch.from[i]]
    /\ IsSome(found) =>
         \A k \in 1..Len(Get(found)) :
            \E i \in 1..Len(srch.blocks) : \E j \in 1..Len(srch.blocks[i]) :
               Get(found)[k] = to_lsp(srch.blocks[i][j])

\* a search holds the snapshot of a document while an upsert_doc call that will
\* replace it with other entries is in the middle of its loop
C8_Witness ==
    /\ srch.pc = "collect"
    /\ \E i \in 1..Len(srch.blocks) : \E p \in Upserters :
          /\ ups[p].pc = "build" /\ ups[p].uri = srch.from[i]
          /\ Len(ups[p].out) = 1
          /\ BuildEntries(ups[p].uri, ups[p].symbols) # srch.blocks[i]

\* C9: the index snapshot of a document is the symbol list of the text its cached
\* tree was parsed from.
C9_SnapshotOfParsedText ==
    \A u \in Uris :
        (IsSome(by_doc[u]) /\ IsSome(docs[u]) /\ IsSome(Doc(u).tree))
        => Get(by_doc[u]) =
             BuildEntries(u, WorkspaceSymbols(Get(Doc(u).tree).src, Doc(u).tree, u))

\* C10: every request a handler has started gets its response, however far the
\* index tasks have walked, and an index task that has asked for a lock gets through
\* to the release of its last lock: no handler and no task is stuck on a lock
C10_NeverStuck ==
    /\ (hnd.pc # "idle") ~> (hnd.pc = "idle")
    /\ \A t \in Tasks :
          (itask[t].pc \in {"insert", "get", "extract", "upsert", "drop"})
          ~> (itask[t].pc \in {"walk", "done"})

\* did_change waits for a shard of docs that an index task holds for reading
C10_Witness ==
    /\ hnd.pc = "change_mut"
    /\ \E t \in Tasks : t \in lk["docs"][layout.docs[hnd.uri]].r

\* q can be read off n from left to right, skipping characters of n
IsSubsequence(q, n) ==
    \E f \in [1..Len(q) -> 1..Len(n)] :
        /\ \A i \in 1..Len(q) : n[f[i]] = q[i]
        /\ \A i, j \in 1..Len(q) : i < j => f[i] < f[j]

\* str without the whitespace before its first and after its last other character
Stripped(str) ==
    LET solid == {i \in 1..Len(str) : ~IsSpace(str[i])}
    IN  IF solid = {} THEN <<>>
        ELSE SubSeq(str, CHOOSE i \in solid : \A j \in solid : i <= j,
                         CHOOSE i \in solid : \A j \in solid : j <= i)

\* the entries of the index that lie under the root, as the response shows them
InScope_lsp(blocks, r) ==
    {to_lsp(blocks[p[1]][p[2]]) :
        p \in {pos \in (1..Len(blocks)) \X (1..MaxEntries + 1) :
                  pos[2] <= Len(blocks[pos[1]])
                  /\ UnderRoot(blocks[pos[1]][pos[2]], r)}}

Items(list) == {list[i] : i \in 1..Len(list)}

Searched == arg # None /\ Get(arg).fn = "search_fuzzy" /\ ret # None

\* the entries of the response are the entries in scope of whose lowercased name
\* q is a subsequence, all of them when the response is not full
MatchesOf(q) ==
    LET a == Get(arg)
        hits == {e \in InScope_lsp(a.blocks, a.root) :
                    IsSubsequence(to_ascii_lowercase(q), to_ascii_lowercase(e.name))}
    IN  /\ Items(Get(ret)) \subseteq hits
        /\ Len(Get(ret)) < a.limit => hits \subseteq Items(Get(ret))

\* C11 as stated: for every non-empty query, an entry in scope qualifies for the
\* result of search_fuzzy exactly when the lowercased query is a subsequence of its
\* lowercased name.
C11_QueryIsSubsequence ==
    (Searched /\ Get(arg).query # <<>>) => MatchesOf(Get(arg).query)

\* C11, amended: for every query that is not empty once its surrounding whitespace
\* is trimmed, an entry in scope qualifies for the result of search_fuzzy exactly
\* when the trimmed, ASCII-lowercased query is a subsequence of its ASCII-lowercased
\* name.
C11_TrimmedQueryIsSubsequence ==
    (Searched /\ Stripped(Get(arg).query) # <<>>) => MatchesOf(Stripped(Get(arg).query))

\* a query with trailing whitespace found some entries in scope and left others out
C11_Witness ==
    /\ Searched
    /\ Stripped(Get(arg).query) \notin {<<>>, Get(arg).query}
    /\ Get(ret) # <<>>
    /\ Len(Get(ret)) < Get(arg).limit
    /\ InScope_lsp(Get(arg).blocks, Get(arg).root) \ Items(Get(ret)) # {}

\* C12: with a limit of at least 1, search_fuzzy called with the exact name of an
\* entry in scope returns a list that contains that entry.
C12_ExactNameRecall ==
    (Searched /\ Get(arg).limit >= 1)
    => \A e \in InScope_lsp(Get(arg).blocks, Get(arg).root) :
          e.name = Get(arg).query => e \in Items(Get(ret))

\* the place of a returned entry in the order of indexing: the documents in the
\* order of their first insertion, the entries of a document in the order of its
\* snapshot (the line of an entry is its place in the snapshot)
IndexedAt(item) ==
    <<CHOOSE i \in 1..Len(calls.indexed) :
          /\ calls.indexed[i] = item.uri
          /\ \A j \in 1..(i - 1) : calls.indexed[j] # item.uri,
      item.range.start.line>>

ScoreOf(query, item) ==
    Get(fuzzy_score(to_ascii_lowercase(Trim(query)), item.name,
                    to_ascii_lowercase(item.name)))

\* a comes before b in the ranking: greater score, then shorter name, then earlier
\* indexing
RankedBefore(query, a, b) ==
    \/ ScoreOf(query, a) > ScoreOf(query, b)
    \/ /\ ScoreOf(query, a) = ScoreOf(query, b)
       /\ \/ Len(a.name) < Len(b.name)
          \/ /\ Len(a.name) = Len(b.name)
             /\ KeyLess(IndexedAt(a), IndexedAt(b))

\* C13: for a non-empty query the list search_fuzzy returns is ordered by score
\* descending, entries of equal score shorter name first, entries of equal score
\* and equal name length in the order they were indexed.
C13_RankedOrder ==
    (found # None /\ srch.query # <<>>)
    => \A i, j \in 1..Len(Get(found)) :
          i < j => RankedBefore(srch.query, Get(found)[i], Get(found)[j])

\* the keys of all the candidates of a search: the entries in scope that score,
\* each with the count of the entries before it in the blocks
AllKeys(blocks, query, r) ==
    LET Before(bi) == LET RECURSIVE Sum(_)
                          Sum(k) == IF k = 0 THEN 0 ELSE Len(blocks[k]) + Sum(k - 1)
                      IN  Sum(bi - 1)
    IN  {<<ScoreOf(query, to_lsp(blocks[p[1]][p[2]])), 0 - Len(blocks[p[1]][p[2]].name),
           0 - (Before(p[1]) + p[2]), p[1] - 1, p[2] - 1>> :
            p \in {pos \in (1..Len(blocks)) \X (1..MaxEntries + 1) :
                      /\ pos[2] <= Len(blocks[pos[1]])
                      /\ to_lsp(blocks[pos[1]][pos[2]]) \in InScope_lsp(blocks, r)
                      /\ IsSubsequence(to_ascii_lowercase(Stripped(query)),
                                       blocks[pos[1]][pos[2]].name_lowercase)}}

\* sort all the candidates by the ranking key, then cut the list at limit
SortAndTruncate(blocks, query, r, limit) ==
    LET sorted == SortDescending(AllKeys(blocks, query, r))
        kept == IF Len(sorted) <= limit THEN sorted ELSE SubSeq(sorted, 1, limit)
    IN  [i \in 1..Len(kept) |-> to_lsp(blocks[kept[i][4] + 1][kept[i][5] + 1])]

\* C14: for every limit N and every set of candidates, the bounded min-heap of
\* search_fuzzy returns what sorting all the qualifying candidates by the ranking
\* key and truncating to N returns; the result has at most N entries and is empty
\* for N = 0.
C14_HeapIsSortAndTruncate ==
    Searched =>
        /\ Len(Get(ret)) <= Get(arg).limit
        /\ Stripped(Get(arg).query) # <<>>
           => Get(ret) = SortAndTruncate(Get(arg).blocks, Get(arg).query,
                                         Get(arg).root, Get(arg).limit)

\* more candidates than the limit, of different scores and with a tie of scores
\* between names of different lengths: the heap overflowed more than once
C14_Witness ==
    /\ Searched
    /\ Get(arg).limit >= 1
    /\ Stripped(Get(arg).query) # <<>>
    /\ LET keys == AllKeys(Get(arg).blocks, Get(arg).query, Get(arg).root)
       IN  /\ Cardinality(keys) > Get(arg).limit + 1
           /\ Cardinality({k[1] : k \in keys}) >= 2
           /\ \E k, o \in keys : k[1] = o[1] /\ k[2] # o[2]

\* C15: for an empty query search_fuzzy leaves out no entry on account of its name:
\* it returns the first N entries, in the order they were indexed, among those that
\* pass the path-prefix filter (all entries when no prefix is given).
C15_EmptyQueryInIndexingOrder ==
    (found # None /\ srch.query = <<>>)
    => LET scope == InScope_lsp(srch.blocks, srch.root)
           list == Get(found)
       IN  /\ Items(list) \subseteq scope
           /\ Len(list) = IF Cardinality(scope) < srch.limit
                          THEN Cardinality(scope) ELSE srch.limit
           /\ \A i, j \in 1..Len(list) :
                 i < j => KeyLess(IndexedAt(list[i]), IndexedAt(list[j]))
           /\ \A e \in scope \ Items(list) : \A f \in Items(list) :
                 KeyLess(IndexedAt(f), IndexedAt(e))

SymbolAnswered == arg # None /\ Get(arg).fn = "symbol" /\ ret # None

\* the blocks search_fuzzy collects when by_doc.iter() visits the keys in order:
\* the snapshots index_workspace stored for the documents it has indexed
IndexBlocks(a, order) ==
    LET RECURSIVE From(_)
        From(o) ==
            IF o = <<>> THEN <<>>
            ELSE (IF Head(o) \in a.indexed
                  THEN <<BuildEntries(Head(o),
                             WorkspaceSymbols(Get(a.store[Head(o)]).text,
                                              Get(a.store[Head(o)]).tree, Head(o)))>>
                  ELSE <<>>) \o From(Tail(o))
    IN  From(order)

\* C16: a workspace-symbol request is answered by the fuzzy query of the index: in
\* every state of the store and of the index the handler returns the entries, in
\* the ranked order, that search_fuzzy returns for the same query, scope and cap.
C16_AnsweredByIndex ==
    SymbolAnswered
    => LET a == Get(arg) IN
       \E order \in IterOrders :
          Get(ret) = search_fuzzy(IndexBlocks(a, order), a.query,
                                  IF Len(a.query) > 2 THEN None ELSE a.root, SymbolCap)

\* the symbols extraction yields for the stored document u during the request
ExtractedOf(a, u) ==
    LET d2 == parse_with_debounce(Get(a.store[u]), now, a.ok)
    IN  Items(WorkspaceSymbols(d2.text, d2.tree, u))

IsPrefix(r, path) == Len(r) <= Len(path) /\ SubSeq(path, 1, Len(r)) = r

\* C17: a workspace query of length at most 2 returns only symbols of documents
\* whose path lies under the active workspace root; a query of length above 2
\* returns the matching symbols of every stored document, those under dependency
\* roots included.
C17_ScopeByQueryLength ==
    SymbolAnswered
    => LET a == Get(arg) IN
       /\ Len(a.query) <= 2
          => \A s \in Items(Get(ret)) :
                a.root # None /\ IsPrefix(Get(a.root), s.uri.path)
       /\ Len(a.query) > 2
          => \A u \in IdxUris :
                IsSome(a.store[u])
                => \A s \in ExtractedOf(a, u) :
                      Contains(to_ascii_lowercase(s.name), to_ascii_lowercase(a.query))
                      => s \in Items(Get(ret))

\* with the root set, a long query returned a symbol of a document outside it
C17_Witness ==
    /\ SymbolAnswered
    /\ Get(arg).root = Some(WsRoot)
    /\ Len(Get(arg).query) > 2
    /\ \E s \in Items(Get(ret)) : ~IsPrefix(WsRoot, s.uri.path)

Walked == arg # None /\ Get(arg).fn = "index_workspace" /\ ret # None

HasComponent(path, name) == \E i \in 1..Len(path) : path[i] = name

\* C18: during the walk a source file under the published-package layout whose
\* path has no src directory is not indexed, the file of the same path under the
\* development-checkout layout is indexed, and the filter is applied to the
\* dependency roots only.
C18_DepotFilter ==
    Walked
    => LET a == Get(arg) IN
       /\ (a.root = PackagesRoot /\ ~HasComponent(a.root \o a.file, "src"))
          => Get(ret) = FALSE
       /\ a.root = DevRoot => Get(ret) = TRUE
       /\ a.root = WsRoot => Get(ret) = TRUE

Extracted == arg # None /\ Get(arg).fn = "extract" /\ ret # None

\* C19: when the cache holds no tree after the parse attempt, extraction returns
\* an empty result, for every text: the document outline is empty and the
\* workspace symbol list is empty.
C19_NoTreeNoSymbols ==
    (Extracted /\ Get(ret).tree = None)
    => Get(ret).outline = <<>> /\ Get(ret).workspace = <<>>

IndexerStartedOn == arg # None /\ Get(arg).fn = "start_indexer" /\ ret # None

\* the manifest is absent, is present but cannot be parsed, or declares no dependency
DeclaresNothing(manifest) ==
    \/ ~manifest.exists
    \/ manifest.doc = None
    \/ Get(manifest.doc).deps \in {None, Some(<<>>)}

\* C20: root discovery yields zero extra roots, without error, when the manifest
\* is absent, is present but unparsable, or declares no dependencies; exactly one
\* index task, for the declared workspace root, is then started.
C20_NoManifestNoExtraRoots ==
    (IndexerStartedOn /\ DeclaresNothing(Get(arg).manifest))
    => /\ Get(ret).extra = <<>>
       /\ Get(ret).tasks = <<Get(arg).root>>

\* a manifest that exists and cannot be parsed, with two depots in the environment
C20_Witness ==
    /\ IndexerStartedOn
    /\ Get(arg).manifest = Manifest(TRUE, None)
    /\ Len(Get(arg).depots) = 2
    /\ Len(Get(ret).tasks) = 1

\* the document was edited after its cached tree was parsed: the edit is stamped
\* later than the parse, or the tree is the tree of another text than the stored one
Stale(d) ==
    IsSome(d.tree) /\ (d.last_edit > d.last_parse \/ Get(d.tree).src # d.text)

\* C21: a parse request on a stale document reparses if and only if
\* now - last_edit >= the debounce interval or no tree exists yet; on a fresh
\* document, and on a stale document with a tree whose last edit is younger than
\* the debounce interval, the parser is not invoked and the tree and the parse
\* timestamp are left unchanged.
C21_ReparseIffDue ==
    [][\A u \in Uris :
          (lastOp'.request /\ IsSome(docs[u]))
          => LET d == Doc(u) IN
             /\ d.tree = None => lastOp'.invoked
             /\ Stale(d) => (lastOp'.invoked <=> now - d.last_edit >= Debounce)
             /\ (IsSome(d.tree) /\ ~Stale(d)) => ~lastOp'.invoked
             /\ ~lastOp'.invoked
                => /\ Get(docs'[u]).tree = d.tree
                   /\ Get(docs'[u]).last_parse = d.last_parse]_vars

\* the block holds one entry for each symbol of the list, in the order of the list
HoldsInOrder(block, symbols) ==
    /\ Len(block) = Len(symbols)
    /\ \A i \in 1..Len(symbols) :
          /\ block[i].name = symbols[i].name
          /\ block[i].uri = symbols[i].uri
          /\ block[i].range = symbols[i].range
          /\ block[i].kind = symbols[i].kind

\* C22: upsert_doc(d, S) replaces the snapshot of document d wholesale: afterwards
\* the index holds for d exactly the entries of S in order, none of d's prior
\* entries, and the snapshots of all other documents are unchanged; two upserts
\* racing on the same d leave exactly the entries of the one that wrote last, never
\* a mix.
C22_WholesaleReplace ==
    [][/\ \A p \in Upserters :
             (ups[p].pc = "build" /\ ups'[p].pc = "idle")
             => /\ IsSome(by_doc'[ups[p].uri])
                /\ HoldsInOrder(Get(by_doc'[ups[p].uri]), ups[p].symbols)
                /\ \A u \in IdxUris \ {ups[p].uri} : by_doc'[u] = by_doc[u]
       /\ by_doc' # by_doc
          => \E p \in Upserters : ups[p].pc = "build" /\ ups'[p].pc = "idle"]_vars

\* a second upsert_doc of the same document has written over the snapshot of the
\* first, which held other entries
C22_Witness ==
    /\ calls.indexed = <<UriA, UriA>>
    /\ Cardinality(given[UriA]) = 2
    /\ IsSome(by_doc[UriA])
    /\ \A p \in Upserters : ups[p].pc = "idle"

\* the records of out in every order
Reorderings(out) ==
    {[i \in 1..Len(out) |-> out[f[i]]] :
        f \in {g \in [1..Len(out) -> 1..Len(out)] :
                  \A i, j \in 1..Len(out) : i # j => g[i] # g[j]}}

\* no two records have the same byte range
DistinctRanges(out) ==
    \A i, j \in 1..Len(out) :
        i # j => (out[i].start # out[j].start \/ out[i].end # out[j].end)

\* C23 as stated: the nesting reconstruction result does not depend on the order
\* in which the tree walk collected the pending records: for every set of records,
\* any two input permutations produce the same outline.
C23_AnyOrderSameOutline ==
    IsSome(outline) => \A p \in Reorderings(pending) : NestPending(p) = Get(outline)

\* C23, amended: for every set of records no two of which have the same byte
\* range, any two input permutations produce the same outline (same parent/child
\* relation and same sibling order).
C23_DistinctRangesSameOutline ==
    (IsSome(outline) /\ DistinctRanges(pending))
    => \A p \in Reorderings(pending) : NestPending(p) = Get(outline)

\* three records of different ranges, one of them nested in another
C23_Witness ==
    /\ IsSome(outline)
    /\ Len(pending) = 3
    /\ DistinctRanges(pending)
    /\ \E i \in 1..Len(Get(outline)) : Get(outline)[i].children # <<>>

\* the nodes of an outline, each without its children: a node, the nodes below
\* it, then its later siblings
RECURSIVE Flatten(_)
Flatten(nodes) ==
    IF nodes = <<>> THEN <<>>
    ELSE <<[Head(nodes) EXCEPT !.children = <<>>]>>
         \o Flatten(Head(nodes).children) \o Flatten(Tail(nodes))

\* C27: nesting reconstruction neither loses nor duplicates symbols: every pending
\* record collected from the tree appears exactly once in the returned outline, as
\* a root node or as a child of exactly one node, and the outline contains no
\* other node.
C27_EveryRecordOnce ==
    IsSome(outline)
    => LET flat == Flatten(Get(outline)) IN
       /\ \A i \in 1..Len(pending) :
             Cardinality({k \in 1..Len(flat) : flat[k] = pending[i]}) = 1
       /\ \A k \in 1..Len(flat) : \E i \in 1..Len(pending) : flat[k] = pending[i]

\* an outline of three records on three levels
C27_Witness ==
    /\ IsSome(outline)
    /\ Len(pending) = 3
    /\ Len(Get(outline)) = 1
    /\ Len(Get(outline)[1].children) = 1
    /\ Len(Get(outline)[1].children[1].children) = 1

\* the directories depot/<packages|dev>/<name> of the call, for the depots of the
\* environment and the names the manifest declares
Combinations(a) ==
    {a.depots[i] \o <<layout_dir, name>> :
        i \in 1..Len(a.depots), layout_dir \in {"packages", "dev"},
        name \in IF a.manifest.exists THEN Items(read_project_deps(a.manifest)) ELSE {}}

\* C24: root discovery adds a dependency root only for a (dependency-storage
\* directory, layout, dependency name) combination that exists on the filesystem:
\* the discovered roots are the workspace root plus exactly the existing
\* directories among depot/<packages|dev>/<name>, and one index task is spawned
\* per such root.
C24_OnlyExistingRoots ==
    IndexerStartedOn
    => LET a == Get(arg)
           there == Combinations(a) \cap a.existing
       IN  /\ Items(Get(ret).extra) = there
           /\ Items(Get(ret).tasks) = {a.root} \cup there
           /\ Len(Get(ret).tasks) = 1 + Cardinality(there)

\* the entries of all blocks, as the response shows them, whose lowercased name
\* has the lowercased q as a subsequence (every entry when q is empty); the line
\* of an entry tells the entries of one document apart
NamedLike(blocks, q) ==
    {to_lsp(blocks[p[1]][p[2]]) :
        p \in {pos \in (1..Len(blocks)) \X (1..MaxEntries + 1) :
                  /\ pos[2] <= Len(blocks[pos[1]])
                  /\ IsSubsequence(to_ascii_lowercase(q),
                                   to_ascii_lowercase(blocks[pos[1]][pos[2]].name))}}

\* C25: when a path prefix is supplied to search_fuzzy, every returned entry's
\* filesystem path starts with that directory, for empty and non-empty queries
\* alike; when none is supplied, no entry is excluded on account of its path.
C25_PathPrefix ==
    Searched
    => LET a == Get(arg)
           named == NamedLike(a.blocks, Stripped(a.query))
       IN  /\ a.root # None
              => \A k \in 1..Len(Get(ret)) :
                    /\ IsSome(to_file_path(Get(ret)[k].uri))
                    /\ IsPrefix(Get(a.root), Get(to_file_path(Get(ret)[k].uri)))
           /\ a.root = None
              => /\ Items(Get(ret)) \subseteq named
                 /\ Len(Get(ret)) = IF Cardinality(named) < a.limit
                                    THEN Cardinality(named) ELSE a.limit

\* with a prefix, a search returned entries and left out an entry of the same
\* name in a document outside the prefix
C25_Witness ==
    /\ Searched
    /\ Get(arg).root = Some(WsRoot)
    /\ Get(arg).query # <<>>
    /\ Get(ret) # <<>>
    /\ Len(Get(ret)) < Get(arg).limit
    /\ \E e \in NamedLike(Get(arg).blocks, Stripped(Get(arg).query)) :
          /\ ~IsPrefix(WsRoot, e.uri.path)
          /\ \E k \in 1..Len(Get(ret)) : Get(ret)[k].name = e.name

Scored == arg # None /\ Get(arg).fn = "fuzzy_score" /\ ret # None

\* the greedy earliest-position alignment of q on n: every character of q is put
\* on the first position of n, behind the position of the character before it,
\* that holds it
IsGreedyAlignment(f, q, n) ==
    \A k \in 1..Len(q) :
        /\ n[f[k]] = q[k]
        /\ k > 1 => f[k - 1] < f[k]
        /\ \A j \in 1..(f[k] - 1) : (k = 1 \/ f[k - 1] < j) => n[j] # q[k]

Separators == {" ", "_", "-", "/", ".", "(", ")", "[", "]"}

\* what the k-th matched character adds to the score; f holds positions from 1
MatchTerm(f, k, name) ==
    LET at == f[k] IN
    10
    + (IF at = 1 \/ (at > 1 /\ name[at - 1] \in Separators) THEN 15 ELSE 0)
    + (IF at > 1 /\ name[at] \in Upper /\ name[at - 1] \in Lower THEN 12 ELSE 0)
    + (IF k = 1
       THEN (IF at <= 3 THEN 5 ELSE 0)
       ELSE IF at = f[k - 1] + 1 THEN 8
       ELSE LET gap == at - f[k - 1] - 1
            IN  0 - (IF 2 * gap < 16 THEN 2 * gap ELSE 16))

ReferenceScore(f, q, name) ==
    LET RECURSIVE Sum(_)
        Sum(k) == IF k = 0 THEN 0 ELSE MatchTerm(f, k, name) + Sum(k - 1)
    IN  Sum(Len(q))

\* C26: for every (query, name) that qualifies, fuzzy_score equals the reference
\* score of the greedy earliest-position alignment: the sum over matched characters
\* of a base score, plus a boundary bonus when preceded by a separator or at string
\* start, plus a camel-case bonus for an uppercase character preceded by lowercase,
\* plus a contiguity bonus when directly after the previous match, plus an
\* early-position bonus only for the first match when within the first three
\* characters, minus for a non-contiguous later match a penalty proportional to the
\* gap length and capped at a maximum.
C26_ScoreIsGreedyReference ==
    Scored
    => LET q == Get(arg).q_lc
           name == Get(arg).name
           n == to_ascii_lowercase(name)
       IN  IsSubsequence(q, n)
           => \E f \in [1..Len(q) -> 1..Len(n)] :
                 /\ IsGreedyAlignment(f, q, n)
                 /\ Get(ret) = Some(ReferenceScore(f, q, name))

\* a match behind a gap longer than the cap of the penalty counts
C26_Witness ==
    /\ Scored
    /\ Get(arg).q_lc = <<"a", "b">>
    /\ Len(Get(arg).name) = 11
    /\ Get(ret) = Some(24)

ChangeHandled == arg # None /\ Get(arg).fn = "did_change" /\ ret # None

\* C28: a change notification for a document that is not in the Document Store
\* leaves the store unchanged (no document is created, no text is recorded) and
\* publishes no diagnostics; a change notification for a known document carrying
\* several content changes leaves the document text equal to the last change's
\* full text.
C28_ChangeOfUnknownOrKnown ==
    ChangeHandled
    => LET a == Get(arg) IN
       /\ a.store[a.uri] = None
          => /\ Get(ret).docs = a.store
             /\ Get(ret).published = None
       /\ (a.store[a.uri] # None /\ Len(a.changes) >= 2)
          => /\ Get(ret).docs[a.uri] # None
             /\ Get(Get(ret).docs[a.uri]).text = a.changes[Len(a.changes)]

\* a known document got two content changes, the first with another text than the
\* second
C28_Witness ==
    /\ ChangeHandled
    /\ Get(arg).store[Get(arg).uri] # None
    /\ Len(Get(arg).changes) = 2
    /\ Get(arg).changes[1] # Get(arg).changes[2]
    /\ Get(Get(arg).store[Get(arg).uri]).text = Get(arg).changes[1]
    /\ Get(ret).published # None

====
